---- MODULE Spec2Model ----
(***************************************************************************)
(* State-machine model of the space-cargo stowage backend: the in-memory   *)
(* store, the batch placement request (api/placement.py driving            *)
(* AdvancedPlacementEngine.place_items_enhanced_priority), the retrieval   *)
(* step planner (RetrievalEngine), the waste / return planner             *)
(* (WasteEngine), the time simulation (api/simulation.py driving           *)
(* SimulationEngine) and SpatialEngine.validate_placement.                 *)
(*                                                                         *)
(* Lengths are whole units, instants are whole ticks (TicksPerDay ticks to *)
(* a day).  The engine's floating-point scores are modelled as exact       *)
(* rationals [num, den]; a square root is exact on perfect squares and     *)
(* rounded down to 1/100 otherwise.                                        *)
(***************************************************************************)
EXTENDS Integers, Sequences, FiniteSets, TLC

(***************************************************************************)
(* Bounds of the model                                                     *)
(***************************************************************************)
MaxRequests == 2        \* placement requests in one behaviour
MaxBatch == 2           \* items in one placement request
MaxReqContainers == 1   \* container declarations in one placement request

(***************************************************************************)
(* Generic helpers                                                         *)
(***************************************************************************)
Max2(a, b) == IF a >= b THEN a ELSE b
Min2(a, b) == IF a <= b THEN a ELSE b
Abs(a) == IF a < 0 THEN -a ELSE a

RECURSIVE GCD(_, _)
GCD(a, b) == IF b = 0 THEN Abs(a) ELSE GCD(b, a % b)

LCM(a, b) == (a \div GCD(a, b)) * b

\* exact rationals: [num |-> n, den |-> d] with d > 0, kept in lowest terms
Frac(n, d) ==
    LET g == GCD(Abs(n), d)
    IN  [num |-> n \div g, den |-> d \div g]
FInt(n) == [num |-> n, den |-> 1]
FAdd(a, b) ==
    LET l == LCM(a.den, b.den)
    IN  Frac(a.num * (l \div a.den) + b.num * (l \div b.den), l)
FSub(a, b) == FAdd(a, [num |-> -b.num, den |-> b.den])
FMul(a, b) ==
    LET g1 == GCD(Abs(a.num), b.den)
        g2 == GCD(Abs(b.num), a.den)
    IN  Frac((a.num \div g1) * (b.num \div g2), (a.den \div g2) * (b.den \div g1))
FLess(a, b) ==
    LET l == LCM(a.den, b.den)
    IN  a.num * (l \div a.den) < b.num * (l \div b.den)
FLeq(a, b) == ~FLess(b, a)
FMax(a, b) == IF FLess(a, b) THEN b ELSE a
FMin(a, b) == IF FLess(b, a) THEN b ELSE a

\* largest r with r * r <= n
RECURSIVE ISqrtFrom(_, _)
ISqrtFrom(n, r) == IF (r + 1) * (r + 1) > n THEN r ELSE ISqrtFrom(n, r + 1)
ISqrt(n) == ISqrtFrom(n, 0)

\* math.sqrt on an integer argument
Sqrt(n) == IF ISqrt(n) * ISqrt(n) = n THEN FInt(ISqrt(n)) ELSE Frac(ISqrt(n * 10000), 100)

Range(s) == {s[i] : i \in 1..Len(s)}
Take(s, n) == SubSeq(s, 1, Min2(n, Len(s)))
Reverse(s) == [i \in 1..Len(s) |-> s[Len(s) + 1 - i]]
SeqsUpTo(S, n) == UNION {[1..k -> S] : k \in 0..n}

\* list.sort / sorted under a strict weak order "before": the stable order
StableSort(s, before(_, _)) ==
    LET t == s \o << >>
        rank == [i \in 1..Len(t) |->
                    Cardinality({j \in 1..Len(t) :
                       \/ before(t[j], t[i])
                       \/ (~before(t[i], t[j]) /\ j < i)}) + 1] \o << >>
    IN  [k \in 1..Len(t) |-> t[CHOOSE i \in 1..Len(t) : rank[i] = k]] \o << >>

(***************************************************************************)
(* Strings.  A Python str is a sequence of one-character strings, so that  *)
(* lower(), replace(), split(), "in" and zfill() are computed, not assumed.*)
(***************************************************************************)
UpperCase == <<"A", "B", "C", "D", "E", "F", "G", "H", "I", "J", "K", "L", "M", "N", "O", "P", "Q", "R", "S", "T", "U", "V", "W", "X", "Y", "Z">>
LowerCase == <<"a", "b", "c", "d", "e", "f", "g", "h", "i", "j", "k", "l", "m", "n", "o", "p", "q", "r", "s", "t", "u", "v", "w", "x", "y", "z">>
DigitChars == {"0", "1", "2", "3", "4", "5", "6", "7", "8", "9"}

LowerChar(c) ==
    IF \E i \in 1..Len(UpperCase) : UpperCase[i] = c
    THEN LowerCase[CHOOSE i \in 1..Len(UpperCase) : UpperCase[i] = c]
    ELSE c
StrLower(s) == [i \in 1..Len(s) |-> LowerChar(s[i])]
StrReplace(s, old, new) == [i \in 1..Len(s) |-> IF s[i] = old THEN new ELSE s[i]]
StrIn(a, b) == \E k \in 0..(Len(b) - Len(a)) : SubSeq(b, k + 1, k + Len(a)) = a
\* set(s.split()): the maximal runs of non-blank characters
StrWords(s) ==
    {SubSeq(s, p[1], p[2]) : p \in {q \in (1..Len(s)) \X (1..Len(s)) :
        /\ q[1] <= q[2]
        /\ (q[1] = 1 \/ s[q[1] - 1] = " ")
        /\ (q[2] = Len(s) \/ s[q[2] + 1] = " ")
        /\ \A k \in q[1]..q[2] : s[k] # " "}}
\* re.sub(r'\D', '', s)
RECURSIVE DigitsOnly(_)
DigitsOnly(s) ==
    IF s = << >> THEN << >>
    ELSE IF Head(s) \in DigitChars THEN <<Head(s)>> \o DigitsOnly(Tail(s))
    ELSE DigitsOnly(Tail(s))
\* s.zfill(n)
ZFill(s, n) == IF Len(s) >= n THEN s ELSE [i \in 1..(n - Len(s)) |-> "0"] \o s

\* zone_aliases, in dict order: <<category, aliases>>
zone_aliases ==
    << <<<<"l", "a", "b">>,
          <<<<"l", "a", "b">>,
            <<"l", "a", "b", "o", "r", "a", "t", "o", "r", "y">>,
            <<"r", "e", "s", "e", "a", "r", "c", "h">>,
            <<"s", "c", "i", "e", "n", "c", "e">>,
            <<"e", "x", "p", "e", "r", "i", "m", "e", "n", "t">>>> >>,
       <<<<"s", "t", "o", "r", "a", "g", "e">>,
          <<<<"s", "t", "o", "r", "a", "g", "e">>,
            <<"c", "a", "r", "g", "o">>,
            <<"w", "a", "r", "e", "h", "o", "u", "s", "e">>,
            <<"b", "a", "y">>,
            <<"h", "o", "l", "d">>>> >>,
       <<<<"m", "a", "i", "n", "t", "e", "n", "a", "n", "c", "e">>,
          <<<<"m", "a", "i", "n", "t", "e", "n", "a", "n", "c", "e">>,
            <<"e", "n", "g", "i", "n", "e", "e", "r", "i", "n", "g">>,
            <<"r", "e", "p", "a", "i", "r">>,
            <<"w", "o", "r", "k", "s", "h", "o", "p">>,
            <<"t", "e", "c", "h", "n", "i", "c", "a", "l">>>> >>,
       <<<<"c", "r", "e", "w">>,
          <<<<"c", "r", "e", "w">>,
            <<"q", "u", "a", "r", "t", "e", "r", "s">>,
            <<"l", "i", "v", "i", "n", "g">>,
            <<"p", "e", "r", "s", "o", "n", "a", "l">>,
            <<"r", "e", "s", "i", "d", "e", "n", "t", "i", "a", "l">>>> >>,
       <<<<"m", "e", "d", "i", "c", "a", "l">>,
          <<<<"m", "e", "d", "i", "c", "a", "l">>,
            <<"h", "e", "a", "l", "t", "h">>,
            <<"h", "o", "s", "p", "i", "t", "a", "l">>,
            <<"c", "l", "i", "n", "i", "c">>,
            <<"t", "r", "e", "a", "t", "m", "e", "n", "t">>>> >>,
       <<<<"a", "i", "r", "l", "o", "c", "k">>,
          <<<<"a", "i", "r", "l", "o", "c", "k">>,
            <<"e", "n", "t", "r", "y">>,
            <<"e", "x", "i", "t">>,
            <<"h", "a", "t", "c", "h">>,
            <<"d", "o", "c", "k", "i", "n", "g">>>> >>,
       <<<<"c", "o", "c", "k", "p", "i", "t">>,
          <<<<"c", "o", "c", "k", "p", "i", "t">>,
            <<"b", "r", "i", "d", "g", "e">>,
            <<"c", "o", "n", "t", "r", "o", "l">>,
            <<"c", "o", "m", "m", "a", "n", "d">>,
            <<"p", "i", "l", "o", "t">>>> >> >>

\* Item.get_priority_score: critical_zones
critical_zones == {<<"M", "e", "d", "i", "c", "a", "l", "_", "B", "a", "y">>, <<"L", "i", "f", "e", "_", "S", "u", "p", "p", "o", "r", "t">>, <<"C", "o", "m", "m", "a", "n", "d", "_", "C", "e", "n", "t", "e", "r">>}

\* zone labels used by the requests of the model
ZLab == <<"L", "a", "b">>
ZLabLower == <<"l", "a", "b">>
ZStorageBay == <<"S", "t", "o", "r", "a", "g", "e", "_", "B", "a", "y">>
ZCargoHold == <<"C", "a", "r", "g", "o", "_", "H", "o", "l", "d">>
ZMedicalBay == <<"M", "e", "d", "i", "c", "a", "l", "_", "B", "a", "y">>
ZLabAnnex == <<"L", "a", "b", "_", "A", "n", "n", "e", "x">>

(***************************************************************************)
(* Zone matching (ZoneOptimizer)                                           *)
(***************************************************************************)
NoCategory == << >>

ZoneClean(zone) == StrReplace(StrReplace(StrLower(zone), "_", " "), "-", " ")

\* the category left in pref_category / cont_category by the loop over
\* zone_aliases.items(): the last category one of whose aliases occurs
ZoneCategory(clean) ==
    LET hits == {i \in 1..Len(zone_aliases) :
                    \E j \in 1..Len(zone_aliases[i][2]) : StrIn(zone_aliases[i][2][j], clean)}
    IN  IF hits = {} THEN NoCategory
        ELSE zone_aliases[CHOOSE i \in hits : \A k \in hits : k <= i][1]

ZoneOptimizer_calculate_zone_match_score(preferred_zone, container_zone) ==
    LET pref_clean == ZoneClean(preferred_zone)
        cont_clean == ZoneClean(container_zone)
        same_category(pref_category, cont_category) ==
            /\ pref_category # NoCategory
            /\ cont_category # NoCategory
            /\ pref_category = cont_category
    IN  IF preferred_zone = << >> \/ container_zone = << >> THEN Frac(5, 10)
        ELSE IF pref_clean = cont_clean THEN Frac(10, 10)
        ELSE IF StrIn(pref_clean, cont_clean) \/ StrIn(cont_clean, pref_clean) THEN Frac(8, 10)
        ELSE IF StrWords(pref_clean) \cap StrWords(cont_clean) # {} THEN Frac(7, 10)
        ELSE IF same_category(ZoneCategory(pref_clean), ZoneCategory(cont_clean))
        THEN Frac(6, 10)
        ELSE Frac(2, 10)

\* item.preferredZone.lower() == container_zone.lower()
SameZoneLower(preferred_zone, container_zone) == StrLower(preferred_zone) = StrLower(container_zone)

\* validators.validate_item_id; "invalid" stands for the raised ValidationError
validate_item_id(item_id) ==
    IF item_id = << >> THEN "invalid"
    ELSE IF DigitsOnly(item_id) = << >> THEN "invalid"
    ELSE ZFill(DigitsOnly(item_id), 6)

(***************************************************************************)
(* Data model (models/item.py, models/container.py)                        *)
(***************************************************************************)
TicksPerDay == 2

\* Item.expiryDate: None, the string "N/A", a string fromisoformat rejects,
\* or an ISO date-time (the instant "at")
ExpNone == [kind |-> "None", at |-> 0]
ExpNA == [kind |-> "N/A", at |-> 0]
ExpMalformed == [kind |-> "malformed", at |-> 0]
ExpAt(t) == [kind |-> "iso", at |-> t]

\* Item.containerId is None (or empty) / Item.position is None
NoContainer == << >>
NoPosition == << >>
IsPlaced(item) == item.containerId # NoContainer /\ item.position # NoPosition
Pos(item) == item.position[1]

Coordinates(w, d, h) == [width |-> w, depth |-> d, height |-> h]
Position(x, y, z, width, depth, height) ==
    [startCoordinates |-> Coordinates(x, y, z),
     endCoordinates |-> Coordinates(x + width, y + depth, z + height)]

\* timedelta.days of (a - b): whole days, rounded towards minus infinity
DaysBetween(a, b) == (a - b) \div TicksPerDay

Item_get_volume(item) == item.width * item.depth * item.height

\* is_expired with a fault: an item counts as expired at its expiry instant
Item_is_expired_at_expiry(item, current_date) ==
    IF item.expiryDate = ExpNone \/ item.expiryDate = ExpNA THEN FALSE
    ELSE IF item.expiryDate.kind # "iso" THEN FALSE
    ELSE current_date >= item.expiryDate.at

Item_is_expired(item, current_date) ==
    IF item.expiryDate = ExpNone \/ item.expiryDate = ExpNA THEN FALSE
    ELSE IF item.expiryDate.kind # "iso" THEN FALSE
    ELSE current_date > item.expiryDate.at

Item_is_depleted(item) == item.currentUses >= item.usageLimit

Item_get_status(item, current_date) ==
    IF Item_is_expired(item, current_date) THEN "expired"
    ELSE IF Item_is_depleted(item) THEN "depleted"
    ELSE "active"

Item_get_priority_score(item) ==
    IF item.preferredZone \in critical_zones THEN item.priority + 20 ELSE item.priority

\* get_rotations with a fault: width written where depth belongs
Item_get_rotations_width_twice(item) ==
    << <<item.width, item.width, item.height>>,
       <<item.depth, item.width, item.height>> >>

Item_get_rotations(item) ==
    << <<item.width, item.depth, item.height>>,
       <<item.depth, item.width, item.height>> >>

\* dict.get(item_id) on a dict kept as the sequence of its values in
\* insertion order: << >> for a miss, <<value>> for a hit
Lookup(items_dict, item_id) ==
    LET hits == {i \in 1..Len(items_dict) : items_dict[i].itemId = item_id}
    IN  IF hits = {} THEN << >> ELSE <<items_dict[CHOOSE i \in hits : TRUE]>>

RECURSIVE SumSeq(_)
SumSeq(s) == IF s = << >> THEN 0 ELSE Head(s) + SumSeq(Tail(s))

PositionVolume(pos) ==
    (pos.endCoordinates.width - pos.startCoordinates.width) *
    (pos.endCoordinates.depth - pos.startCoordinates.depth) *
    (pos.endCoordinates.height - pos.startCoordinates.height)

Container_get_volume(container) == container.width * container.depth * container.height

Container_get_used_volume(container, items_dict) ==
    SumSeq([k \in 1..Len(container.items) |->
        LET found == Lookup(items_dict, container.items[k])
        IN  IF found # << >> /\ found[1].position # NoPosition
            THEN PositionVolume(Pos(found[1]))
            ELSE 0])

Container_get_available_volume(container, items_dict) ==
    Container_get_volume(container) - Container_get_used_volume(container, items_dict)

(***************************************************************************)
(* hash(str): fixed within one process, keyed by the process's hash seed   *)
(***************************************************************************)
\* the characters of the model's strings in code-point order
CharTable == <<" ", "-", "/", "0", "1", "2", "3", "4", "5", "6", "7", "8", "9", "A", "B", "C", "D", "E", "F", "G", "H", "I", "J", "K", "L", "M", "N", "O", "P", "Q", "R", "S", "T", "U", "V", "W", "X", "Y", "Z", "_", "a", "b", "c", "d", "e", "f", "g", "h", "i", "j", "k", "l", "m", "n", "o", "p", "q", "r", "s", "t", "u", "v", "w", "x", "y", "z">>
Ord(c) == CHOOSE i \in 1..Len(CharTable) : CharTable[i] = c
\* str < str: lexicographic by code point
RECURSIVE StrLess(_, _)
StrLess(a, b) ==
    IF b = << >> THEN FALSE
    ELSE IF a = << >> THEN TRUE
    ELSE IF Head(a) # Head(b) THEN Ord(Head(a)) < Ord(Head(b))
    ELSE StrLess(Tail(a), Tail(b))

PyHash(seed, s) == SumSeq([i \in 1..Len(s) |-> Ord(s[i]) * (i + seed) * (seed + 1)])

(***************************************************************************)
(* PriorityCalculator                                                      *)
(***************************************************************************)
\* hasattr(item, 'usageCount'): the Item model declares currentUses, not
\* usageCount
HasUsageCount == FALSE
UsageCountOf(item) == 0

PriorityCalculator_calculate_composite_priority(item, current_time) ==
    LET base_priority == Frac(item.priority * 40, 100)
        days_to_expiry == DaysBetween(item.expiryDate.at, current_time)
        expiry_score ==
            IF item.expiryDate = ExpNone THEN 0
            ELSE IF item.expiryDate.kind # "iso" THEN 0
            ELSE IF days_to_expiry <= 0 THEN 30
            ELSE IF days_to_expiry <= 7 THEN 25
            ELSE IF days_to_expiry <= 30 THEN 15
            ELSE IF days_to_expiry <= 90 THEN 5
            ELSE 0
        remaining_uses == item.usageLimit - UsageCountOf(item)
        usage_score ==
            IF ~HasUsageCount THEN 0
            ELSE IF ~(item.usageLimit > 0) THEN 0
            ELSE IF remaining_uses <= 0 THEN 20
            ELSE IF remaining_uses * 10 <= item.usageLimit THEN 15
            ELSE IF remaining_uses * 4 <= item.usageLimit THEN 10
            ELSE IF remaining_uses * 2 <= item.usageLimit THEN 5
            ELSE 0
        zone_score ==
            IF item.priority >= 80 THEN 10
            ELSE IF item.priority >= 60 THEN 5
            ELSE 0
        total_score == FAdd(base_priority, FInt(expiry_score + usage_score + zone_score))
    IN  FMin(total_score, FInt(100))

PriorityCalculator_should_force_preferred_zone(item, current_time) ==
    \/ item.priority >= 85
    \/ /\ item.expiryDate # ExpNone
       /\ item.expiryDate.kind = "iso"
       /\ DaysBetween(item.expiryDate.at, current_time) <= 14
    \/ /\ HasUsageCount
       /\ item.usageLimit > 0
       /\ item.usageLimit - UsageCountOf(item) <= 2

ZoneOptimizer_calculate_zone_priority_score(item, container_zone) ==
    LET priority_multiplier == FAdd(FInt(1), Frac(item.priority, 100))
        boosted(zone_score) ==
            IF SameZoneLower(item.preferredZone, container_zone) /\ item.priority >= 80
            THEN FAdd(zone_score, FInt(50))
            ELSE zone_score
    IN  FMul(boosted(ZoneOptimizer_calculate_zone_match_score(item.preferredZone,
                                                              container_zone)),
             priority_multiplier)

ZoneOptimizer_get_zone_placement_strategy(item, current_time) ==
    LET strategy(composite_priority) ==
            IF FLeq(FInt(90), composite_priority) THEN "FORCE_PREFERRED"
            ELSE IF FLeq(FInt(70), composite_priority) THEN "PREFER_ZONE"
            ELSE IF FLeq(FInt(50), composite_priority) THEN "CONSIDER_ZONE"
            ELSE "ANY_ZONE"
    IN  strategy(PriorityCalculator_calculate_composite_priority(item, current_time))

(***************************************************************************)
(* ItemSorter                                                              *)
(***************************************************************************)
SortedDims(item) ==
    StableSort(<<item.width, item.depth, item.height>>, LAMBDA a, b : a < b)

\* get_comprehensive_score: <<composite_priority, packing_score, tie_breaker>>
ItemSorter_get_comprehensive_score(item, current_time, seed) ==
    LET volume == item.width * item.depth * item.height
        size_score ==
            IF volume > 10000 THEN 100
            ELSE IF volume > 5000 THEN 80
            ELSE IF volume > 1000 THEN 60
            ELSE IF volume > 100 THEN 40
            ELSE 20
        dims == SortedDims(item)
        shape_score ==
            IF dims[3] > dims[2] * 3 THEN 100
            ELSE IF dims[3] * 2 < dims[1] * 3 THEN 50
            ELSE 75
        zone_bonus == PyHash(seed, item.preferredZone) % 10
        tie_breaker == PyHash(seed, item.itemId) % 1000
    IN  <<PriorityCalculator_calculate_composite_priority(item, current_time),
          size_score + shape_score + zone_bonus,
          tie_breaker>>

ItemSorter_context_optimized_sort(items, current_time, seed) ==
    LET \* sorted(items, key=get_comprehensive_score, reverse=True): one key per item
        keyed == [k \in 1..Len(items) |->
                    [key |-> ItemSorter_get_comprehensive_score(items[k], current_time, seed),
                     item |-> items[k]]] \o << >>
        before(a, b) ==
            \/ FLess(b.key[1], a.key[1])
            \/ a.key[1] = b.key[1] /\ a.key[2] > b.key[2]
            \/ a.key[1] = b.key[1] /\ a.key[2] = b.key[2] /\ a.key[3] > b.key[3]
        sorted == StableSort(keyed, before)
    IN  [k \in 1..Len(sorted) |-> sorted[k].item] \o << >>

(***************************************************************************)
(* FreeSpace, PlacedItem, ContainerState (advanced_placement_engine.py)    *)
(***************************************************************************)
MinSplitVolume == 10      \* _update_free_spaces keeps splits with volume > 10.0
MaxFreeSpaces == 50       \* _update_free_spaces keeps the 50 largest spaces

FreeSpace(x, y, z, width, depth, height) ==
    [x |-> x, y |-> y, z |-> z, width |-> width, depth |-> depth, height |-> height]

FreeSpace_volume(fs) == fs.width * fs.depth * fs.height

FreeSpace_can_fit(fs, width, depth, height) ==
    fs.width >= width /\ fs.depth >= depth /\ fs.height >= height

AllOrientations(width, depth, height) ==
    << <<width, depth, height>>,
       <<depth, width, height>>,
       <<width, height, depth>>,
       <<height, width, depth>>,
       <<depth, height, width>>,
       <<height, depth, width>> >>

FreeSpace_can_fit_any_orientation(fs, width, depth, height) ==
    SelectSeq(AllOrientations(width, depth, height),
              LAMBDA o : FreeSpace_can_fit(fs, o[1], o[2], o[3]))

PlacedItem(item_id, x, y, z, width, depth, height, priority) ==
    [item_id |-> item_id, x |-> x, y |-> y, z |-> z,
     width |-> width, depth |-> depth, height |-> height, priority |-> priority]

PlacedItem_get_volume(pi) == pi.width * pi.depth * pi.height

\* <<min_x, min_y, min_z, max_x, max_y, max_z>>
PlacedItem_get_aabb(pi) ==
    <<pi.x, pi.y, pi.z, pi.x + pi.width, pi.y + pi.depth, pi.z + pi.height>>

PlacedItem_get_position(pi) == Position(pi.x, pi.y, pi.z, pi.width, pi.depth, pi.height)

ContainerState(container_id, width, depth, height, zone) ==
    [container_id |-> container_id, width |-> width, depth |-> depth, height |-> height,
     zone |-> zone,
     placed_items |-> << >>,
     free_spaces |-> <<FreeSpace(0, 0, 0, width, depth, height)>>,
     total_volume |-> width * depth * height,
     used_volume |-> 0]

\* utilization percentage
ContainerState_get_utilization(cs) ==
    IF cs.total_volume = 0 THEN FInt(0) ELSE Frac(cs.used_volume * 100, cs.total_volume)

\* max(free_spaces, key=volume): the first space of largest volume; << >> for None
ContainerState_get_largest_free_space(cs) ==
    IF cs.free_spaces = << >> THEN << >>
    ELSE LET best == CHOOSE i \in 1..Len(cs.free_spaces) :
                 /\ \A j \in 1..Len(cs.free_spaces) :
                        FreeSpace_volume(cs.free_spaces[j]) <= FreeSpace_volume(cs.free_spaces[i])
                 /\ \A j \in 1..(i - 1) :
                        FreeSpace_volume(cs.free_spaces[j]) < FreeSpace_volume(cs.free_spaces[i])
         IN  <<cs.free_spaces[best]>>

AabbOverlap(a, b) ==
    ~(a[4] <= b[1] \/ a[1] >= b[4] \/
      a[5] <= b[2] \/ a[2] >= b[5] \/
      a[6] <= b[3] \/ a[3] >= b[6])

ContainerState_can_place_item(cs, x, y, z, width, depth, height) ==
    IF x < 0 \/ y < 0 \/ z < 0 \/
       x + width > cs.width \/ y + depth > cs.depth \/ z + height > cs.height
    THEN FALSE
    ELSE \A k \in 1..Len(cs.placed_items) :
            ~AabbOverlap(<<x, y, z, x + width, y + depth, z + height>>,
                         PlacedItem_get_aabb(cs.placed_items[k]))

SetMin(S) == CHOOSE m \in S : \A n \in S : m <= n

ContainerState_calculate_position_score(cs, x, y, z, priority) ==
    LET accessibility == Max2(0, 100 - y)
        stability == Max2(0, 100 - z)
        sq(k) == (x - cs.placed_items[k].x) * (x - cs.placed_items[k].x)
               + (y - cs.placed_items[k].y) * (y - cs.placed_items[k].y)
               + (z - cs.placed_items[k].z) * (z - cs.placed_items[k].z)
        min_distance == Sqrt(SetMin({sq(k) : k \in 1..Len(cs.placed_items)}))
        compactness ==
            IF cs.placed_items = << >> THEN FInt(0)
            ELSE FMax(FInt(0), FSub(FInt(100), FMin(FInt(100), min_distance)))
    IN  FAdd(FAdd(Frac(accessibility * 4, 10), Frac(stability * 3, 10)),
             FAdd(FMul(compactness, Frac(1, 10)), Frac(priority * 2, 10)))

ContainerState_spaces_overlap(space1, space2) ==
    ~(space1.x + space1.width <= space2.x \/
      space2.x + space2.width <= space1.x \/
      space1.y + space1.depth <= space2.y \/
      space2.y + space2.depth <= space1.y \/
      space1.z + space1.height <= space2.z \/
      space2.z + space2.height <= space1.z)

\* the splits _update_free_spaces keeps of one free space overlapping the item
FreeSpaceSplits(free_space, item_space) ==
    LET left == IF item_space.x > free_space.x
                THEN <<FreeSpace(free_space.x, free_space.y, free_space.z,
                                 item_space.x - free_space.x,
                                 free_space.depth, free_space.height)>>
                ELSE << >>
        right == IF free_space.x + free_space.width > item_space.x + item_space.width
                 THEN <<FreeSpace(item_space.x + item_space.width, free_space.y, free_space.z,
                                  (free_space.x + free_space.width)
                                      - (item_space.x + item_space.width),
                                  free_space.depth, free_space.height)>>
                 ELSE << >>
    IN  SelectSeq(left \o right, LAMBDA s : FreeSpace_volume(s) > MinSplitVolume)

\* RebuildFreeSpaces with a fault: a free space the item overlaps is kept as
\* it is, not replaced by its splits
RebuildFreeSpaces_keeps_overlapped(free_spaces, item_space) == free_spaces

RECURSIVE RebuildFreeSpaces(_, _)
RebuildFreeSpaces(free_spaces, item_space) ==
    IF free_spaces = << >> THEN << >>
    ELSE (IF ContainerState_spaces_overlap(Head(free_spaces), item_space)
          THEN FreeSpaceSplits(Head(free_spaces), item_space)
          ELSE <<Head(free_spaces)>>)
         \o RebuildFreeSpaces(Tail(free_spaces), item_space)

\* the new value of free_spaces
ContainerState_update_free_spaces(cs, x, y, z, width, depth, height) ==
    LET new_free_spaces == RebuildFreeSpaces(cs.free_spaces, FreeSpace(x, y, z, width, depth, height))
    IN  IF Len(new_free_spaces) > MaxFreeSpaces
        THEN Take(StableSort(new_free_spaces,
                             LAMBDA a, b : FreeSpace_volume(a) > FreeSpace_volume(b)),
                  MaxFreeSpaces)
        ELSE new_free_spaces

\* [ok |-> the returned bool, cs |-> the container state afterwards]
ContainerState_place_item(cs, item_id, x, y, z, width, depth, height, priority) ==
    IF ~ContainerState_can_place_item(cs, x, y, z, width, depth, height)
    THEN [ok |-> FALSE, cs |-> cs]
    ELSE [ok |-> TRUE,
          cs |-> [cs EXCEPT
                    !.placed_items = Append(@, PlacedItem(item_id, x, y, z, width, depth, height, priority)),
                    !.used_volume = @ + width * depth * height,
                    !.free_spaces = ContainerState_update_free_spaces(cs, x, y, z, width, depth, height)]]

(***************************************************************************)
(* AdvancedPlacementEngine.  container_states is the dict                  *)
(* self.container_states as the sequence of its values in insertion order. *)
(***************************************************************************)
TopHigh == 5      \* _place_high_priority_item tries rankings[:5]
TopMedium == 3    \* _place_medium_priority_item tries rankings[:3]

StateIds(container_states) == {container_states[i].container_id : i \in 1..Len(container_states)}
StateIndex(container_states, container_id) ==
    CHOOSE i \in 1..Len(container_states) : container_states[i].container_id = container_id
StateOf(container_states, container_id) ==
    container_states[StateIndex(container_states, container_id)]

RECURSIVE AddPlacedItems(_, _)
AddPlacedItems(container_states, placed_items) ==
    IF placed_items = << >> THEN container_states
    ELSE LET item == Head(placed_items)
             known == item.containerId \in StateIds(container_states) /\ item.position # NoPosition
             i == StateIndex(container_states, item.containerId)
             start == Pos(item).startCoordinates
             end == Pos(item).endCoordinates
             fresh == \A k \in 1..Len(container_states[i].placed_items) :
                          container_states[i].placed_items[k].item_id # item.itemId
             placed == ContainerState_place_item(container_states[i], item.itemId,
                           start.width, start.depth, start.height,
                           end.width - start.width, end.depth - start.depth,
                           end.height - start.height, item.priority)
         IN  AddPlacedItems(
                 IF known /\ fresh THEN [container_states EXCEPT ![i] = placed.cs]
                 ELSE container_states,
                 Tail(placed_items))

Engine_initialize_container_states(container_states, containers, placed_items) ==
    LET new == SelectSeq(containers, LAMBDA c : c.containerId \notin StateIds(container_states))
    IN  AddPlacedItems(
            container_states \o
                [k \in 1..Len(new) |->
                    ContainerState(new[k].containerId, new[k].width, new[k].depth,
                                   new[k].height, new[k].zone)],
            placed_items)

\* candidate positions <<x, y, z, width, depth, height>>, in the order the
\* two nested loops (orientations, then free spaces) visit them
Candidates(orientations, cs) ==
    LET n == Len(cs.free_spaces)
        all == [k \in 1..(Len(orientations) * n) |->
                   LET o == orientations[((k - 1) \div n) + 1]
                       fs == cs.free_spaces[((k - 1) % n) + 1]
                   IN  [fits |-> FreeSpace_can_fit(fs, o[1], o[2], o[3]),
                        space |-> fs,
                        position |-> <<fs.x, fs.y, fs.z, o[1], o[2], o[3]>>]]
    IN  SelectSeq(all, LAMBDA c : c.fits)

\* << >> for None, else <<position>>
Engine_find_accessible_position(item, cs) ==
    LET cands == Candidates(Item_get_rotations(item), cs)
    IN  IF cands = << >> THEN << >>
        ELSE LET best == CHOOSE i \in 1..Len(cands) :
                     /\ \A j \in 1..Len(cands) : cands[i].space.y <= cands[j].space.y
                     /\ \A j \in 1..(i - 1) : cands[j].space.y > cands[i].space.y
             IN  <<cands[best].position>>

OptimizedOrientations(item) ==
    Item_get_rotations(item) \o
    (IF item.height < Max2(item.width, item.depth)
     THEN << <<item.height, item.depth, item.width>>,
             <<item.height, item.width, item.depth>>,
             <<item.width, item.height, item.depth>>,
             <<item.depth, item.height, item.width>> >>
     ELSE << >>)

\* the score _try_place_item_optimized gives a candidate
OptimizedScore(item, cs, cand) ==
    LET space_efficiency == Frac(cand.position[4] * cand.position[5] * cand.position[6],
                                 FreeSpace_volume(cand.space))
        accessibility_score == Max2(0, 100 - cand.space.y)
    IN  FAdd(ContainerState_calculate_position_score(cs, cand.space.x, cand.space.y,
                                                     cand.space.z, item.priority),
             FAdd(FMul(space_efficiency, FInt(20)), Frac(accessibility_score, 10)))

Engine_try_place_item_optimized(item, cs) ==
    LET cands == Candidates(OptimizedOrientations(item), cs)
        \* the first candidate of the best score
        best(score) == CHOOSE i \in 1..Len(cands) :
                           /\ \A j \in 1..Len(cands) : FLeq(score[j], score[i])
                           /\ \A j \in 1..(i - 1) : FLess(score[j], score[i])
    IN  IF cands = << >> THEN << >>
        ELSE <<cands[best([i \in 1..Len(cands) |->
                              OptimizedScore(item, cs, cands[i])] \o << >>)].position>>

\* <<total_score, container_id>> pairs, best first
Engine_rank_containers_for_item_enhanced(container_states, item, current_time) ==
    LET strategy_weight(placement_strategy) ==
            IF placement_strategy = "FORCE_PREFERRED" THEN Frac(2, 1)
            ELSE IF placement_strategy = "PREFER_ZONE" THEN Frac(3, 2)
            ELSE Frac(1, 1)
        weight == strategy_weight(ZoneOptimizer_get_zone_placement_strategy(item, current_time))
        force_preferred == PriorityCalculator_should_force_preferred_zone(item, current_time)
        eligible(cs) ==
            /\ ~((item.width > cs.width /\ item.depth > cs.width) \/ item.height > cs.height)
            /\ ~(force_preferred /\ ~SameZoneLower(item.preferredZone, cs.zone))
        total_score(cs) ==
            LET zone_priority_score == ZoneOptimizer_calculate_zone_priority_score(item, cs.zone)
                utilization == ContainerState_get_utilization(cs)
                accessibility_score ==
                    IF item.priority >= 80
                    THEN FMax(FInt(0), FSub(FInt(50), FMul(utilization, Frac(1, 2))))
                    ELSE FInt(0)
                largest_space == ContainerState_get_largest_free_space(cs)
                orientations ==
                    IF largest_space = << >> THEN << >>
                    ELSE FreeSpace_can_fit_any_orientation(largest_space[1],
                             item.width, item.depth, item.height)
                \* min(orientations, key=volume)
                best_orientation == orientations[1]
                fit_efficiency ==
                    Frac(item.width * item.depth * item.height,
                         best_orientation[1] * best_orientation[2] * best_orientation[3])
                space_score ==
                    IF orientations = << >> THEN FInt(0)
                    ELSE FAdd(FInt(60), FMul(fit_efficiency, FInt(20)))
            IN  FAdd(FMul(zone_priority_score, weight), FAdd(accessibility_score, space_score))
        kept == SelectSeq(container_states, eligible)
        rankings == [k \in 1..Len(kept) |-> <<total_score(kept[k]), kept[k].container_id>>]
    IN  \* rankings.sort(reverse=True) on (score, id) tuples
        StableSort(rankings,
                   LAMBDA a, b : \/ FLess(b[1], a[1])
                                 \/ a[1] = b[1] /\ StrLess(b[2], a[2]))

\* one attempt on one container: the position found, then place_item
Attempt(container_states, item, container_id, position) ==
    LET i == StateIndex(container_states, container_id)
        p == position[1]
        placed == ContainerState_place_item(container_states[i], item.itemId,
                      p[1], p[2], p[3], p[4], p[5], p[6], item.priority)
    IN  IF position # << >> /\ placed.ok
        THEN [placement |-> <<[itemId |-> item.itemId,
                               containerId |-> container_id,
                               position |-> Position(p[1], p[2], p[3], p[4], p[5], p[6])]>>,
              container_states |-> [container_states EXCEPT ![i] = placed.cs]]
        ELSE [placement |-> << >>, container_states |-> container_states]

\* the first attempt of a loop "for ... : if success: return" that succeeds
FirstSuccess(container_states, attempts) ==
    LET tried == attempts \o << >>
        ok == {k \in 1..Len(tried) : tried[k].placement # << >>}
    IN  IF ok = {} THEN [placement |-> << >>, container_states |-> container_states]
        ELSE tried[SetMin(ok)]

Engine_place_high_priority_item(container_states, item, current_time) ==
    LET force_preferred == PriorityCalculator_should_force_preferred_zone(item, current_time)
        preferred_containers ==
            IF force_preferred
            THEN SelectSeq(container_states, LAMBDA cs : SameZoneLower(item.preferredZone, cs.zone))
            ELSE << >>
        first == FirstSuccess(container_states,
                    [k \in 1..Len(preferred_containers) |->
                        Attempt(container_states, item, preferred_containers[k].container_id,
                                Engine_find_accessible_position(item, preferred_containers[k]))])
        position_in(cs) ==
            LET accessible == Engine_find_accessible_position(item, cs)
            IN  IF accessible # << >> THEN accessible
                ELSE Engine_try_place_item_optimized(item, cs)
        second(rankings) ==
            FirstSuccess(container_states,
                [k \in 1..Len(rankings) |->
                    Attempt(container_states, item, rankings[k][2],
                            position_in(StateOf(container_states, rankings[k][2])))])
    IN  IF first.placement # << >> THEN first
        ELSE second(Take(Engine_rank_containers_for_item_enhanced(container_states, item,
                                                                  current_time),
                         TopHigh))

Engine_place_medium_priority_item(container_states, item, current_time) ==
    LET attempts(rankings) ==
            [k \in 1..Len(rankings) |->
                Attempt(container_states, item, rankings[k][2],
                        Engine_try_place_item_optimized(item,
                            StateOf(container_states, rankings[k][2])))]
    IN  FirstSuccess(container_states,
            attempts(Take(Engine_rank_containers_for_item_enhanced(container_states, item,
                                                                   current_time),
                          TopMedium)))

Engine_place_low_priority_item(container_states, item) ==
    LET \* position, largest: per container, the position found and the
        \* largest free space
        best_of(position, largest) ==
            LET \* item_volume / largest_space.volume
                efficiency == [k \in 1..Len(container_states) |->
                    IF position[k] = << >> \/ largest[k] = << >>
                       \/ FreeSpace_volume(largest[k][1]) <= 0
                    THEN FInt(0)
                    ELSE Frac(position[k][1][4] * position[k][1][5] * position[k][1][6],
                              FreeSpace_volume(largest[k][1]))] \o << >>
                found == {k \in 1..Len(container_states) :
                             /\ position[k] # << >>
                             /\ largest[k] # << >>
                             /\ FLess(FInt(0), efficiency[k])}
                best == CHOOSE k \in found :
                            /\ \A j \in found : FLeq(efficiency[j], efficiency[k])
                            /\ \A j \in found : j < k => FLess(efficiency[j], efficiency[k])
            IN  IF found = {} THEN [placement |-> << >>, container_states |-> container_states]
                ELSE Attempt(container_states, item, container_states[best].container_id,
                             position[best])
    IN  best_of([k \in 1..Len(container_states) |->
                    Engine_try_place_item_optimized(item, container_states[k])] \o << >>,
                [k \in 1..Len(container_states) |->
                    ContainerState_get_largest_free_space(container_states[k])] \o << >>)

\* the body of the loop of place_items_enhanced_priority for one item
Engine_place_one(container_states, item, current_time) ==
    IF item.priority >= 80 THEN Engine_place_high_priority_item(container_states, item, current_time)
    ELSE IF item.priority >= 50 THEN Engine_place_medium_priority_item(container_states, item, current_time)
    ELSE Engine_place_low_priority_item(container_states, item)

\* PlaceLoop with a fault: every item is tried against the trackers as they
\* were when the call began
RECURSIVE PlaceLoop_stale_trackers(_, _, _, _)
PlaceLoop_stale_trackers(container_states, sorted_items, placements, current_time) ==
    IF sorted_items = << >>
    THEN [placements |-> placements, container_states |-> container_states]
    ELSE LET next(r) == PlaceLoop_stale_trackers(container_states, Tail(sorted_items),
                                                 placements \o r.placement, current_time)
         IN  next(Engine_place_one(container_states, Head(sorted_items), current_time))

RECURSIVE PlaceLoop(_, _, _, _)
PlaceLoop(container_states, sorted_items, placements, current_time) ==
    IF sorted_items = << >>
    THEN [placements |-> placements, container_states |-> container_states]
    ELSE LET next(r) == PlaceLoop(r.container_states, Tail(sorted_items),
                                  placements \o r.placement, current_time)
         IN  next(Engine_place_one(container_states, Head(sorted_items), current_time))

\* [raised |-> the exception raised ("" for none), placements, container_states]
Engine_place_items_enhanced_priority(container_states, items, containers, current_time, seed) ==
    LET states == Engine_initialize_container_states(container_states, containers, << >>)
        sorted_items == ItemSorter_context_optimized_sort(items, current_time, seed)
        \* 100*total_placed/len(items) in the closing statistics
        closing(done) ==
            IF Len(items) = 0
            THEN [raised |-> "ZeroDivisionError", placements |-> << >>,
                  container_states |-> done.container_states]
            ELSE [raised |-> "", placements |-> done.placements,
                  container_states |-> done.container_states]
    IN  closing(PlaceLoop(states, sorted_items, << >>, current_time))

(***************************************************************************)
(* The requests the model draws its inputs from                            *)
(***************************************************************************)
MaxNow == 1             \* wall-clock ticks that pass in one behaviour
MaxHashSeed == 1        \* hash seeds a process may start with

ItemRequest(itemId, width, depth, height, priority, preferredZone, mass, expiryDate, usageLimit) ==
    [itemId |-> itemId, width |-> width, depth |-> depth, height |-> height,
     priority |-> priority, preferredZone |-> preferredZone, mass |-> mass,
     expiryDate |-> expiryDate, usageLimit |-> usageLimit]

ContainerRequest(containerId, zone, width, depth, height) ==
    [containerId |-> containerId, zone |-> zone,
     width |-> width, depth |-> depth, height |-> height]

IdA == <<"A", "1">>
IdB == <<"B", "1">>

\* itemId as sent, before validate_item_id
ItemRequests ==
    { ItemRequest(<<"1">>, 2, 2, 2, 90, ZLab, 2, ExpNone, 2),
      ItemRequest(<<"A", "1">>, 3, 1, 2, 60, ZLabLower, 3, ExpAt(10 * TicksPerDay), 1),
      ItemRequest(<<"2">>, 3, 2, 1, 30, ZMedicalBay, 1, ExpNA, 1),
      ItemRequest(<<"3">>, 4, 4, 4, 80, ZLab, 2, ExpAt(0), 3),
      ItemRequest(<<"4">>, 2, 2, 2, 30, ZLab, 1, ExpAt(5 * TicksPerDay), 1),
      ItemRequest(<<"5">>, 2, 2, 2, 40, ZCargoHold, 1, ExpAt(0), 1) }

\* maxWeight of a return-plan request (Field gt=0)
MaxWeights == {1, 4}

ContainerRequests ==
    { ContainerRequest(IdA, ZLab, 4, 4, 4),
      ContainerRequest(IdA, ZLab, 2, 4, 4),
      ContainerRequest(IdB, ZStorageBay, 4, 4, 4) }

(***************************************************************************)
(* State                                                                   *)
(***************************************************************************)
VARIABLES
    items,        \* MemoryStore._items: the dict's values in insertion order
    containers,   \* MemoryStore._containers: the dict's values in insertion order
    now,          \* datetime.now()
    hashseed,     \* the hash seed of the running process
    nreq,         \* placement requests served
    op,           \* the last operation
    input,        \* its arguments
    output,       \* its result
    before,       \* the store as it was when the last operation began
    threads,      \* the requests being served by threads: position and local variables
    simulation_date   \* MemoryStore._simulation_date

vars == <<items, containers, now, hashseed, nreq, op, input, output, before, threads,
          simulation_date>>

Store == [items |-> items, containers |-> containers]

(***************************************************************************)
(* MemoryStore (storage/memory_store.py) on a dict kept as a sequence      *)
(***************************************************************************)
ItemKeys(items_dict) == {items_dict[i].itemId : i \in 1..Len(items_dict)}
ContainerKeys(containers_dict) == {containers_dict[i].containerId : i \in 1..Len(containers_dict)}
ContainerLookup(containers_dict, container_id) ==
    LET hits == {i \in 1..Len(containers_dict) : containers_dict[i].containerId = container_id}
    IN  IF hits = {} THEN << >> ELSE <<containers_dict[CHOOSE i \in hits : TRUE]>>

\* d[key] = value
DictPutItem(items_dict, item) ==
    IF item.itemId \in ItemKeys(items_dict)
    THEN [i \in 1..Len(items_dict) |->
            IF items_dict[i].itemId = item.itemId THEN item ELSE items_dict[i]]
    ELSE Append(items_dict, item)
DictPutContainer(containers_dict, container) ==
    IF container.containerId \in ContainerKeys(containers_dict)
    THEN [i \in 1..Len(containers_dict) |->
            IF containers_dict[i].containerId = container.containerId
            THEN container ELSE containers_dict[i]]
    ELSE Append(containers_dict, container)

MemoryStore_add_container(containers_dict, container) ==
    IF container.containerId \in ContainerKeys(containers_dict) THEN containers_dict
    ELSE Append(containers_dict, container)
MemoryStore_update_container(containers_dict, container) ==
    IF container.containerId \notin ContainerKeys(containers_dict) THEN containers_dict
    ELSE DictPutContainer(containers_dict, container)
MemoryStore_add_item(items_dict, item) ==
    IF item.itemId \in ItemKeys(items_dict) THEN items_dict ELSE Append(items_dict, item)
MemoryStore_update_item(items_dict, item) ==
    IF item.itemId \notin ItemKeys(items_dict) THEN items_dict ELSE DictPutItem(items_dict, item)

(***************************************************************************)
(* RetrievalEngine (engines/retrieval_engine.py).  placed_items is the     *)
(* dict of stored items as the sequence of its values in insertion order.  *)
(***************************************************************************)
RetrievalEngine_overlaps_in_plane(target_start, target_end, item_start, item_end) ==
    LET width_overlap == ~(target_end.width <= item_start.width \/
                           target_start.width >= item_end.width)
        height_overlap == ~(target_end.height <= item_start.height \/
                            target_start.height >= item_end.height)
    IN  width_overlap /\ height_overlap

\* the condition under which the loop over placed_items appends item
RetrievalEngine_is_blocking(target_item, item) ==
    /\ item.containerId = target_item.containerId
    /\ item.itemId # target_item.itemId
    /\ item.position # NoPosition
    /\ Pos(item).endCoordinates.depth > Pos(target_item).startCoordinates.depth
    /\ RetrievalEngine_overlaps_in_plane(Pos(target_item).startCoordinates,
                                         Pos(target_item).endCoordinates,
                                         Pos(item).startCoordinates,
                                         Pos(item).endCoordinates)

RetrievalEngine_get_blocking_items(target_item, placed_items) ==
    IF ~IsPlaced(target_item) THEN << >>
    ELSE StableSort(SelectSeq(placed_items,
                              LAMBDA item : RetrievalEngine_is_blocking(target_item, item)),
                    LAMBDA a, b : Pos(a).startCoordinates.depth < Pos(b).startCoordinates.depth)

RetrievalEngine_calculate_retrieval_steps(target_item, placed_items, containers_dict) ==
    IF ~IsPlaced(target_item) THEN 0
    ELSE IF ContainerLookup(containers_dict, target_item.containerId) = << >> THEN 0
    ELSE Len(RetrievalEngine_get_blocking_items(target_item, placed_items))

Step(step, action, itemId) == [step |-> step, action |-> action, itemId |-> itemId]

\* get_retrieval_steps with a fault: the blocking items are placed back in
\* the order they were removed
RetrievalEngine_get_retrieval_steps_same_order(target_item, placed_items) ==
    IF ~IsPlaced(target_item) THEN << >>
    ELSE LET blocking_items == RetrievalEngine_get_blocking_items(target_item, placed_items)
             n == Len(blocking_items)
         IN  [k \in 1..n |-> Step(k, "remove", blocking_items[k].itemId)]
             \o <<Step(n + 1, "retrieve", target_item.itemId)>>
             \o [k \in 1..n |-> Step(n + 1 + k, "placeBack", blocking_items[k].itemId)]

RetrievalEngine_get_retrieval_steps(target_item, placed_items) ==
    IF ~IsPlaced(target_item) THEN << >>
    ELSE LET blocking_items == RetrievalEngine_get_blocking_items(target_item, placed_items)
             n == Len(blocking_items)
             reversed == Reverse(blocking_items)
         IN  [k \in 1..n |-> Step(k, "remove", blocking_items[k].itemId)]
             \o <<Step(n + 1, "retrieve", target_item.itemId)>>
             \o [k \in 1..n |-> Step(n + 1 + k, "placeBack", reversed[k].itemId)]

(***************************************************************************)
(* WasteEngine (engines/waste_engine.py)                                   *)
(***************************************************************************)
\* the reason with a fault: depletion is looked at before expiry
WasteEngine_waste_reason_depleted_first(item, current_date) ==
    IF Item_is_depleted(item) THEN "Out of Uses"
    ELSE IF Item_is_expired(item, current_date) THEN "Expired"
    ELSE ""

\* the reason the loop of identify_waste_items settles on; "" for None
WasteEngine_waste_reason(item, current_date) ==
    IF Item_is_expired(item, current_date) THEN "Expired"
    ELSE IF Item_is_depleted(item) THEN "Out of Uses"
    ELSE ""

WasteEngine_identify_waste_items(placed_items, current_date) ==
    LET wasted == SelectSeq(placed_items,
                      LAMBDA item : /\ IsPlaced(item)
                                    /\ WasteEngine_waste_reason(item, current_date) # "")
    IN  [k \in 1..Len(wasted) |->
            [itemId |-> wasted[k].itemId,
             reason |-> WasteEngine_waste_reason(wasted[k], current_date),
             containerId |-> wasted[k].containerId,
             position |-> wasted[k].position]] \o << >>

\* the loop with a fault: the first item that exceeds a limit ends the loop
RECURSIVE WasteEngine_plan_loop_stops_at_rejected(_, _, _, _)
WasteEngine_plan_loop_stops_at_rejected(prioritized_waste, plan, max_weight, available_volume) ==
    IF prioritized_waste = << >> THEN plan
    ELSE LET waste_data == Head(prioritized_waste)
             item == waste_data.item
             item_volume == Item_get_volume(item)
             skip == \/ plan.total_weight + item.mass > max_weight
                     \/ plan.total_volume + item_volume > available_volume
             grown == [return_plan |-> Append(plan.return_plan,
                                          [step |-> Len(plan.return_plan) + 1,
                                           itemId |-> item.itemId,
                                           fromContainer |-> item.containerId,
                                           toContainer |-> plan.undocking_container_id]),
                       return_items |-> Append(plan.return_items,
                                          [itemId |-> item.itemId,
                                           reason |-> waste_data.waste_info.reason]),
                       total_weight |-> plan.total_weight + item.mass,
                       total_volume |-> plan.total_volume + item_volume,
                       undocking_container_id |-> plan.undocking_container_id]
         IN  IF skip THEN plan
             ELSE WasteEngine_plan_loop_stops_at_rejected(Tail(prioritized_waste), grown,
                                                          max_weight, available_volume)

\* the loop "for waste_data in prioritized_waste" (lines 103-132) on the
\* plan built so far
RECURSIVE WasteEngine_plan_loop(_, _, _, _)
WasteEngine_plan_loop(prioritized_waste, plan, max_weight, available_volume) ==
    IF prioritized_waste = << >> THEN plan
    ELSE LET waste_data == Head(prioritized_waste)
             item == waste_data.item
             item_volume == Item_get_volume(item)
             skip == \/ plan.total_weight + item.mass > max_weight
                     \/ plan.total_volume + item_volume > available_volume
             grown == [return_plan |-> Append(plan.return_plan,
                                          [step |-> Len(plan.return_plan) + 1,
                                           itemId |-> item.itemId,
                                           fromContainer |-> item.containerId,
                                           toContainer |-> plan.undocking_container_id]),
                       return_items |-> Append(plan.return_items,
                                          [itemId |-> item.itemId,
                                           reason |-> waste_data.waste_info.reason]),
                       total_weight |-> plan.total_weight + item.mass,
                       total_volume |-> plan.total_volume + item_volume,
                       undocking_container_id |-> plan.undocking_container_id]
         IN  WasteEngine_plan_loop(Tail(prioritized_waste),
                                   IF skip THEN plan ELSE grown,
                                   max_weight, available_volume)

\* the retrieval steps of every planned item, renumbered (lines 134-148)
RECURSIVE WasteEngine_all_retrieval_steps(_, _, _)
WasteEngine_all_retrieval_steps(return_plan, placed_items, done) ==
    IF return_plan = << >> THEN done
    ELSE LET item == Lookup(placed_items, Head(return_plan).itemId)[1]
             item_retrieval_steps == RetrievalEngine_get_retrieval_steps(item, placed_items)
             renumbered == [k \in 1..Len(item_retrieval_steps) |->
                               [item_retrieval_steps[k] EXCEPT !.step = Len(done) + k]]
         IN  WasteEngine_all_retrieval_steps(Tail(return_plan), placed_items,
                                             done \o renumbered)

\* [raised |-> the exception raised ("" for none), returnPlan, retrievalSteps,
\*  returnManifest]
WasteEngine_calculate_return_plan(undocking_container_id, max_weight, placed_items, containers_dict, current_date) ==
    LET waste_items == WasteEngine_identify_waste_items(placed_items, current_date)
        empty == [raised |-> "", returnPlan |-> << >>, retrievalSteps |-> << >>,
                  returnManifest |-> [undockingContainerId |-> undocking_container_id,
                                      undockingDate |-> current_date,
                                      returnItems |-> << >>,
                                      totalVolume |-> 0, totalWeight |-> 0]]
        undocking_container == ContainerLookup(containers_dict, undocking_container_id)
        prioritized_waste ==
            StableSort([k \in 1..Len(waste_items) |->
                           LET item == Lookup(placed_items, waste_items[k].itemId)[1]
                               retrieval_steps ==
                                   RetrievalEngine_calculate_retrieval_steps(
                                       item, placed_items, containers_dict)
                           IN  [item |-> item, waste_info |-> waste_items[k],
                                retrieval_steps |-> retrieval_steps,
                                priority_score |-> FSub(FInt(retrieval_steps),
                                                        Frac(item.priority, 10))]],
                       LAMBDA a, b : FLess(a.priority_score, b.priority_score))
        available_volume == Container_get_available_volume(undocking_container[1], placed_items)
        returned(plan) ==
            [raised |-> "",
             returnPlan |-> plan.return_plan,
             retrievalSteps |-> WasteEngine_all_retrieval_steps(plan.return_plan,
                                                                placed_items, << >>),
             returnManifest |-> [undockingContainerId |-> undocking_container_id,
                                 undockingDate |-> current_date,
                                 returnItems |-> plan.return_items,
                                 totalVolume |-> plan.total_volume,
                                 totalWeight |-> plan.total_weight]]
    IN  IF waste_items = << >> THEN empty
        ELSE IF undocking_container = << >>
        THEN [empty EXCEPT !.raised = "ValueError"]
        ELSE returned(WasteEngine_plan_loop(prioritized_waste,
                          [return_plan |-> << >>, return_items |-> << >>,
                           total_weight |-> 0, total_volume |-> 0,
                           undocking_container_id |-> undocking_container_id],
                          max_weight, available_volume))

(***************************************************************************)
(* POST /placement (api/placement.py place_items)                          *)
(***************************************************************************)
NewContainer(container_req) ==
    [containerId |-> container_req.containerId, zone |-> container_req.zone,
     width |-> container_req.width, depth |-> container_req.depth,
     height |-> container_req.height, items |-> << >>]

NewItem(item_req) ==
    [itemId |-> validate_item_id(item_req.itemId),
     width |-> item_req.width, depth |-> item_req.depth, height |-> item_req.height,
     mass |-> item_req.mass, priority |-> item_req.priority,
     expiryDate |-> IF item_req.expiryDate # ExpNA THEN item_req.expiryDate ELSE ExpNone,
     usageLimit |-> item_req.usageLimit, preferredZone |-> item_req.preferredZone,
     containerId |-> NoContainer, position |-> NoPosition, currentUses |-> 0]

\* lines 61-75: container_dict of the request, and the store after add_container
RECURSIVE DeclareContainers(_, _, _)
DeclareContainers(container_reqs, container_dict, stored) ==
    IF container_reqs = << >> THEN [container_dict |-> container_dict, stored |-> stored]
    ELSE DeclareContainers(Tail(container_reqs),
             DictPutContainer(container_dict, NewContainer(Head(container_reqs))),
             MemoryStore_add_container(stored, NewContainer(Head(container_reqs))))

\* lines 80-87: the containers handed to the engine
MergeContainers(container_dict, existing_containers) ==
    IF container_dict = << >> THEN existing_containers
    ELSE container_dict \o
         SelectSeq(existing_containers,
                   LAMBDA c : c.containerId \notin ContainerKeys(container_dict))

\* lines 124-148: store one placement.  new_items carries the placement
\* fields already written to the request's Item objects.
StorePlacement(st, placement) ==
    LET k == CHOOSE i \in 1..Len(st.new_items) :
                 /\ st.new_items[i].itemId = placement.itemId
                 /\ \A j \in 1..(i - 1) : st.new_items[j].itemId # placement.itemId
        item == [st.new_items[k] EXCEPT !.containerId = placement.containerId,
                                        !.position = <<placement.position>>]
        known == Lookup(st.items, item.itemId) # << >>
        \* an Item object already stored is the object being written to
        stored_items == IF known THEN MemoryStore_update_item(st.items, item)
                        ELSE MemoryStore_add_item(st.items, item)
        container == ContainerLookup(st.containers, placement.containerId)
        stored_containers ==
            IF container # << >> /\ item.itemId \notin Range(container[1].items)
            THEN MemoryStore_update_container(st.containers,
                     [container[1] EXCEPT !.items = Append(@, item.itemId)])
            ELSE st.containers
    IN  [new_items |-> [st.new_items EXCEPT ![k] = item],
         items |-> stored_items,
         containers |-> stored_containers]

RECURSIVE StorePlacements(_, _)
StorePlacements(st, placements) ==
    IF placements = << >> THEN st
    ELSE StorePlacements(StorePlacement(st, Head(placements)), Tail(placements))

\* what the handler computes from the request and the store it finds
PlaceItemsOutcome(item_reqs, container_reqs) ==
    LET declared == DeclareContainers(container_reqs, << >>, containers)
        container_dict == MergeContainers(declared.container_dict, containers)
        invalid == \E k \in 1..Len(item_reqs) : validate_item_id(item_reqs[k].itemId) = "invalid"
        built == [k \in 1..Len(item_reqs) |-> NewItem(item_reqs[k])]
        new_items == StableSort(built,
                        LAMBDA a, b : Item_get_priority_score(a) > Item_get_priority_score(b))
        \* result: what the engine returned or raised
        answered(result) ==
            LET stored == StorePlacements([new_items |-> new_items, items |-> items,
                                           containers |-> declared.stored],
                                          result.placements)
            IN  [new_items |-> new_items,
                 container_dict |-> container_dict,
                 declared |-> declared.stored,
                 status |-> IF invalid THEN 400 ELSE IF result.raised # "" THEN 500 ELSE 200,
                 placements |-> IF invalid \/ result.raised # "" THEN << >>
                                ELSE result.placements,
                 stored |-> IF invalid \/ result.raised # ""
                            THEN [items |-> items, containers |-> declared.stored]
                            ELSE [items |-> stored.items, containers |-> stored.containers]]
    IN  answered(Engine_place_items_enhanced_priority(<< >>, new_items, container_dict,
                                                      now, hashseed))

PlaceItems(item_reqs, container_reqs) ==
    /\ nreq < MaxRequests
    /\ \E done \in {PlaceItemsOutcome(item_reqs, container_reqs)} :
        /\ nreq' = nreq + 1
        /\ op' = "place_items"
        /\ before' = Store
        /\ input' = [items |-> done.new_items, containers |-> done.container_dict]
        /\ output' = [status |-> done.status, placements |-> done.placements]
        /\ containers' = done.stored.containers
        /\ items' = done.stored.items
        /\ UNCHANGED <<now, hashseed, simulation_date, threads>>

\* time passes
Tick ==
    /\ now < MaxNow
    /\ now' = now + 1
    /\ op' = "tick"
    /\ input' = << >>
    /\ output' = << >>
    /\ before' = Store
    /\ UNCHANGED <<items, containers, hashseed, simulation_date, threads, nreq>>

(***************************************************************************)
(* POST /waste/return-plan (api/waste.py create_return_plan).  The request *)
(* reads the store and leaves it as it is; it is asked once the placement  *)
(* requests of the behaviour are served.                                   *)
(***************************************************************************)
CreateReturnPlan(undocking_container_id, undocking_date, max_weight) ==
    LET answered(plan) ==
            IF undocking_container_id \notin ContainerKeys(containers)
            THEN [status |-> 404]
            ELSE IF plan.raised # "" THEN [status |-> 500]
            ELSE [status |-> 200, returnPlan |-> plan.returnPlan,
                  retrievalSteps |-> plan.retrievalSteps,
                  returnManifest |-> plan.returnManifest]
    IN  /\ nreq = MaxRequests
        /\ nreq' = nreq + 1
        /\ op' = "return_plan"
        /\ before' = Store
        /\ input' = [undockingContainerId |-> undocking_container_id,
                     undockingDate |-> undocking_date, maxWeight |-> max_weight]
        /\ output' = answered(WasteEngine_calculate_return_plan(
                                   undocking_container_id, max_weight,
                                   items, containers, undocking_date))
        /\ UNCHANGED <<items, containers, now, hashseed, simulation_date, threads>>

Init ==
    /\ items = << >>
    /\ containers = << >>
    /\ now = 0
    /\ hashseed \in 0..MaxHashSeed
    /\ simulation_date = now
    /\ threads = << >>
    /\ nreq = 0
    /\ op = "init"
    /\ input = << >>
    /\ output = << >>
    /\ before = [items |-> << >>, containers |-> << >>]

PlaceItemsRequest ==
    /\ nreq < MaxRequests
    /\ \E item_reqs \in SeqsUpTo(ItemRequests, MaxBatch) :
        \E container_reqs \in SeqsUpTo(ContainerRequests, MaxReqContainers) :
            PlaceItems(item_reqs, container_reqs)

ReturnPlanRequest ==
    \E undocking_container_id \in {IdA, IdB} :
        \E undocking_date \in 0..MaxNow :
            \E max_weight \in MaxWeights :
                CreateReturnPlan(undocking_container_id, undocking_date, max_weight)

Next ==
    \/ PlaceItemsRequest
    \/ ReturnPlanRequest
    \/ Tick

Spec == Init /\ [][Next]_vars

(***************************************************************************)
(* Properties of the placement and return-plan requests (Spec)             *)
(***************************************************************************)
\* two boxes share interior volume; boxes that only touch do not
BoxesOverlap(p, q) ==
    /\ p.startCoordinates.width < q.endCoordinates.width
    /\ q.startCoordinates.width < p.endCoordinates.width
    /\ p.startCoordinates.depth < q.endCoordinates.depth
    /\ q.startCoordinates.depth < p.endCoordinates.depth
    /\ p.startCoordinates.height < q.endCoordinates.height
    /\ q.startCoordinates.height < p.endCoordinates.height

\* the placed items a store holds in one container
PlacedIn(items_dict, container_id) ==
    SelectSeq(items_dict, LAMBDA item : IsPlaced(item) /\ item.containerId = container_id)

\* C2: no placement committed by a placement request overlaps an item the
\* store held as placed in the same container before that request.
C2_StoredItemsAreObstacles ==
    (op = "place_items" /\ output.status = 200) =>
        \A k \in 1..Len(output.placements) :
            \A j \in 1..Len(before.items) :
                (/\ IsPlaced(before.items[j])
                 /\ before.items[j].containerId = output.placements[k].containerId
                 /\ before.items[j].itemId # output.placements[k].itemId)
                => ~BoxesOverlap(output.placements[k].position, Pos(before.items[j]))

\* C3: every placed item of the store lies within the bounds of the
\* container the store holds under the item's containerId.
C3_PlacedWithinStoredContainer ==
    \A k \in 1..Len(items) :
        IsPlaced(items[k]) =>
            LET container == ContainerLookup(containers, items[k].containerId)
                start == Pos(items[k]).startCoordinates
                end == Pos(items[k]).endCoordinates
            IN  /\ container # << >>
                /\ start.width >= 0 /\ start.depth >= 0 /\ start.height >= 0
                /\ end.width <= container[1].width
                /\ end.depth <= container[1].depth
                /\ end.height <= container[1].height

\* C10: the items a return plan accepts weigh at most maxWeight in total and
\* their volumes sum to at most the undocking container's volume minus the
\* volume of the items placed in it.
C10_ReturnPlanWithinLimits ==
    (op = "return_plan" /\ output.status = 200) =>
        LET accepted == [k \in 1..Len(output.returnPlan) |->
                            Lookup(before.items, output.returnPlan[k].itemId)[1]]
            undocking == ContainerLookup(before.containers, input.undockingContainerId)[1]
            inside == PlacedIn(before.items, input.undockingContainerId)
            available == undocking.width * undocking.depth * undocking.height
                         - SumSeq([k \in 1..Len(inside) |-> PositionVolume(Pos(inside[k]))])
        IN  /\ SumSeq([k \in 1..Len(accepted) |-> accepted[k].mass]) <= input.maxWeight
            /\ SumSeq([k \in 1..Len(accepted) |-> Item_get_volume(accepted[k])]) <= available

(***************************************************************************)
(* SpecEngine: one call of place_items_enhanced_priority on a fresh engine,*)
(* for a batch and a dict of containers drawn from the request sets        *)
(***************************************************************************)
MaxEngineContainers == 2    \* containers handed to the engine in one call

EngineInit ==
    /\ items = << >>
    /\ containers = << >>
    /\ now \in 0..MaxNow
    /\ hashseed \in 0..MaxHashSeed
    /\ simulation_date = now
    /\ threads = << >>
    /\ nreq = 0
    /\ op = "init"
    /\ \E item_reqs \in SeqsUpTo(ItemRequests, MaxBatch) :
         \E container_reqs \in SeqsUpTo(ContainerRequests, MaxEngineContainers) :
            input = [items |-> [k \in 1..Len(item_reqs) |-> NewItem(item_reqs[k])],
                     containers |-> DeclareContainers(container_reqs, << >>, << >>).container_dict]
    /\ output = << >>
    /\ before = [items |-> << >>, containers |-> << >>]

EnginePlaceItems ==
    /\ op = "init"
    /\ op' = "place_items_enhanced_priority"
    /\ output' = Engine_place_items_enhanced_priority(<< >>, input.items, input.containers,
                                                      now, hashseed)
    /\ UNCHANGED <<items, containers, now, hashseed, simulation_date, threads, nreq, input, before>>

EngineNext == EnginePlaceItems

SpecEngine == EngineInit /\ [][EngineNext]_vars

\* C1: among the placements one call returns, no two in the same container
\* have overlapping boxes.
C1_NoOverlapWithinCall ==
    op = "place_items_enhanced_priority" =>
        \A i, j \in 1..Len(output.placements) :
            (i < j /\ output.placements[i].containerId = output.placements[j].containerId)
            => ~BoxesOverlap(output.placements[i].position, output.placements[j].position)

\* two items of one batch were placed in the same container
C1_Witness ==
    /\ op = "place_items_enhanced_priority"
    /\ \E i, j \in 1..Len(output.placements) :
          /\ i < j
          /\ output.placements[i].containerId = output.placements[j].containerId

Extents(position) ==
    <<position.endCoordinates.width - position.startCoordinates.width,
      position.endCoordinates.depth - position.startCoordinates.depth,
      position.endCoordinates.height - position.startCoordinates.height>>

Ascending(dims) == StableSort(dims, LAMBDA a, b : a < b)

\* C4: the extents of every returned placement, sorted ascending, are the
\* width, depth and height, sorted ascending, of an item of the batch that
\* carries the placement's item id.
C4_ExtentsArePermutation ==
    op = "place_items_enhanced_priority" =>
        \A k \in 1..Len(output.placements) :
            \E i \in 1..Len(input.items) :
                /\ input.items[i].itemId = output.placements[k].itemId
                /\ Ascending(Extents(output.placements[k].position))
                   = Ascending(<<input.items[i].width, input.items[i].depth,
                                 input.items[i].height>>)

\* an item was placed turned: no item of the batch with its id has the
\* placed extents in the order width, depth, height
C4_Witness ==
    /\ op = "place_items_enhanced_priority"
    /\ \E k \in 1..Len(output.placements) :
          \A i \in 1..Len(input.items) :
              input.items[i].itemId = output.placements[k].itemId
              => Extents(output.placements[k].position)
                 # <<input.items[i].width, input.items[i].depth, input.items[i].height>>

(***************************************************************************)
(* SpecRetrieval: get_retrieval_steps on a store of three items, each      *)
(* unplaced or placed by hand (POST /place) at a box drawn from a bounded  *)
(* set                                                                     *)
(***************************************************************************)
MaxDepthStart == 2      \* the largest start depth of a placed box

StoredIds == <<validate_item_id(<<"1">>), validate_item_id(<<"2">>), validate_item_id(<<"3">>)>>

RetrievalBoxes ==
    {Position(x, y, 0, 2, d, 2) : x \in {0, 2}, y \in 0..MaxDepthStart, d \in 1..2}

Placings ==
    {[containerId |-> NoContainer, position |-> NoPosition]}
    \cup {[containerId |-> IdA, position |-> <<b>>] : b \in RetrievalBoxes}
    \cup {[containerId |-> IdB, position |-> <<Position(0, 0, 0, 2, 1, 2)>>]}

\* an item of the store; a placed item has the extents of its box
StoredItem(item_id, placing, expiryDate, usageLimit, currentUses) ==
    LET dims == IF placing.position = NoPosition THEN <<2, 2, 2>>
                ELSE Extents(placing.position[1])
    IN  [NewItem(ItemRequest(item_id, dims[1], dims[2], dims[3], 50, ZLab, 1,
                             expiryDate, usageLimit))
            EXCEPT !.containerId = placing.containerId,
                   !.position = placing.position,
                   !.currentUses = currentUses]

\* the containers of a store holding stored_items, each with the ids of the
\* items placed in it
StoredContainers(stored_items) ==
    LET holding(container) ==
            [container EXCEPT !.items =
                LET inside == PlacedIn(stored_items, container.containerId)
                IN  [k \in 1..Len(inside) |-> inside[k].itemId]]
    IN  <<holding(NewContainer(ContainerRequest(IdA, ZLab, 4, MaxDepthStart + 2, 4))),
          holding(NewContainer(ContainerRequest(IdB, ZStorageBay, 4, 4, 4)))>>

RetrievalInit ==
    /\ \E placing \in [1..Len(StoredIds) -> Placings] :
          items = [k \in 1..Len(StoredIds) |->
                      StoredItem(StoredIds[k], placing[k], ExpNone, 1, 0)]
    /\ containers = StoredContainers(items)
    /\ now = 0
    /\ hashseed = 0
    /\ simulation_date = now
    /\ threads = << >>
    /\ nreq = 0
    /\ op = "init"
    /\ input = << >>
    /\ output = << >>
    /\ before = [items |-> << >>, containers |-> << >>]

GetRetrievalSteps(item_id) ==
    /\ op = "init"
    /\ op' = "get_retrieval_steps"
    /\ input' = [itemId |-> item_id]
    /\ output' = RetrievalEngine_get_retrieval_steps(Lookup(items, item_id)[1], items)
    /\ UNCHANGED <<items, containers, now, hashseed, simulation_date, threads, nreq, before>>

RetrievalNext == \E item_id \in ItemKeys(items) : GetRetrievalSteps(item_id)

SpecRetrieval == RetrievalInit /\ [][RetrievalNext]_vars

\* the target of the last get_retrieval_steps and the ids it has removed
Target == Lookup(items, input.itemId)[1]
Removed == {output[k].itemId : k \in {i \in 1..Len(output) : output[i].action = "remove"}}

FootprintsOverlap(p, q) ==
    /\ p.startCoordinates.width < q.endCoordinates.width
    /\ q.startCoordinates.width < p.endCoordinates.width
    /\ p.startCoordinates.height < q.endCoordinates.height
    /\ q.startCoordinates.height < p.endCoordinates.height

\* C5: for a placed target A, another item B is counted as blocking exactly
\* when B is placed in A's container, B's start depth is strictly smaller
\* than A's start depth and their width-height projections overlap.
C5_BlockingIffStartsInFront ==
    (op = "get_retrieval_steps" /\ IsPlaced(Target)) =>
        \A k \in 1..Len(items) :
            items[k].itemId \in Removed
            <=> /\ items[k].itemId # Target.itemId
                /\ IsPlaced(items[k])
                /\ items[k].containerId = Target.containerId
                /\ Pos(items[k]).startCoordinates.depth < Pos(Target).startCoordinates.depth
                /\ FootprintsOverlap(Pos(items[k]), Pos(Target))

StartDepthOf(item_id) == Pos(Lookup(items, item_id)[1]).startCoordinates.depth

C7_OneBlockerThreeSteps ==
    (op = "get_retrieval_steps" /\ IsPlaced(Target)) =>
        LET others == SelectSeq(PlacedIn(items, Target.containerId),
                                LAMBDA item : item.itemId # Target.itemId)
        IN  (/\ Len(others) = 1
             /\ Pos(others[1]).endCoordinates.depth <= Pos(Target).startCoordinates.depth
             /\ FootprintsOverlap(Pos(others[1]), Pos(Target)))
            => output = <<Step(1, "remove", others[1].itemId),
                          Step(2, "retrieve", Target.itemId),
                          Step(3, "placeBack", others[1].itemId)>>

(***************************************************************************)
(* SpecWaste: identify_waste_items on a store of two items drawn from      *)
(* bounded sets of placement, expiry date and use counts                   *)
(***************************************************************************)
MaxUses == 2            \* the largest usageLimit of a stored item

\* no container and no position, a container without a position, or placed
WastePlacings ==
    {[containerId |-> NoContainer, position |-> NoPosition],
     [containerId |-> IdA, position |-> NoPosition],
     [containerId |-> IdA, position |-> <<Position(0, 0, 0, 2, 2, 2)>>]}

ExpiryDates == {ExpNone, ExpNA, ExpMalformed} \cup {ExpAt(t) : t \in 0..MaxNow}

WasteItems(item_id) ==
    {StoredItem(item_id, placing, expiryDate, usageLimit, currentUses) :
        placing \in WastePlacings, expiryDate \in ExpiryDates,
        usageLimit \in 1..MaxUses, currentUses \in 0..MaxUses}

WasteInit ==
    /\ \E first \in {item \in WasteItems(StoredIds[1]) : item.currentUses <= item.usageLimit} :
          \E second \in {item \in WasteItems(StoredIds[2]) :
                            /\ item.currentUses <= item.usageLimit
                            /\ IsPlaced(item)
                            /\ item.expiryDate \in {ExpNone, ExpAt(0)}} :
              items = <<first, second>>
    /\ containers = StoredContainers(items)
    /\ now \in 0..MaxNow
    /\ hashseed = 0
    /\ simulation_date = now
    /\ threads = << >>
    /\ nreq = 0
    /\ op = "init"
    /\ input = << >>
    /\ output = << >>
    /\ before = [items |-> << >>, containers |-> << >>]

\* GET /waste/identify at the store's simulation date
IdentifyWaste ==
    /\ op = "init"
    /\ op' = "identify_waste"
    /\ input' = [current_date |-> simulation_date]
    /\ output' = WasteEngine_identify_waste_items(items, simulation_date)
    /\ UNCHANGED <<items, containers, now, hashseed, simulation_date, threads, nreq, before>>

WasteNext == IdentifyWaste

SpecWaste == WasteInit /\ [][WasteNext]_vars

\* the entries the last identify_waste_items reported for an item
ReportsOf(item_id) == {k \in 1..Len(output) : output[k].itemId = item_id}

ExpiryBefore(item, date) == item.expiryDate.kind = "iso" /\ item.expiryDate.at < date
UsedUp(item) == item.currentUses >= item.usageLimit

\* C8: an item is reported as waste exactly when it has a container and a
\* position and either its expiry lies strictly before now or its
\* currentUses has reached its usageLimit.
C8_WasteIffPlacedAndSpent ==
    op = "identify_waste" =>
        \A k \in 1..Len(items) :
            ReportsOf(items[k].itemId) # {}
            <=> /\ items[k].containerId # NoContainer
                /\ items[k].position # NoPosition
                /\ (ExpiryBefore(items[k], input.current_date) \/ UsedUp(items[k]))

\* one item is reported; the other is expired or used up, but is not placed,
\* and is left out
C8_Witness ==
    /\ op = "identify_waste"
    /\ Len(output) = 1
    /\ \E k \in 1..Len(items) :
          /\ ~IsPlaced(items[k])
          /\ (ExpiryBefore(items[k], input.current_date) \/ UsedUp(items[k]))

\* C9: every waste item is reported once, as "Expired" whenever its expiry
\* lies before now, and as "Out of Uses" only when it is used up and not
\* expired.
C9_OneReasonExpiredFirst ==
    op = "identify_waste" =>
        /\ \A k \in 1..Len(output) : Cardinality(ReportsOf(output[k].itemId)) = 1
        /\ \A k \in 1..Len(output) :
              LET item == Lookup(items, output[k].itemId)[1]
              IN  /\ output[k].reason \in {"Expired", "Out of Uses"}
                  /\ output[k].reason = "Expired" <=> ExpiryBefore(item, input.current_date)
                  /\ output[k].reason = "Out of Uses"
                     => (UsedUp(item) /\ ~ExpiryBefore(item, input.current_date))

\* an item both expired and used up is reported as expired
C9_Witness ==
    /\ op = "identify_waste"
    /\ \E k \in 1..Len(output) :
          LET item == Lookup(items, output[k].itemId)[1]
          IN  /\ ExpiryBefore(item, input.current_date)
              /\ UsedUp(item)
              /\ output[k].reason = "Expired"

(***************************************************************************)
(* RetrievalEngine.simulate_retrieval and POST /retrieve                   *)
(* (engines/retrieval_engine.py, api/search_retrieve.py)                   *)
(***************************************************************************)

\* item.currentUses += 1 with a fault: the counter grows by two
Item_use_twice(item) == [item EXCEPT !.currentUses = @ + 2]

\* item.currentUses += 1
Item_use(item) == [item EXCEPT !.currentUses = @ + 1]

\* simulate_retrieval with a fault: depletion is tested before expiry
RetrievalEngine_simulate_retrieval_depleted_first(item_id, placed_items, current_date) ==
    LET found == Lookup(placed_items, item_id)
        failed(message) == [success |-> FALSE, message |-> message, item |-> << >>,
                            placed_items |-> placed_items]
    IN  IF found = << >> THEN failed(<<"Item ", item_id, " not found">>)
        ELSE IF ~IsPlaced(found[1]) THEN failed(<<"Item ", item_id, " is not placed in any container">>)
        ELSE IF Item_is_depleted(found[1]) THEN failed(<<"Item ", item_id, " has no remaining uses">>)
        ELSE IF Item_is_expired(found[1], current_date) THEN failed(<<"Item ", item_id, " is expired">>)
        ELSE [success |-> TRUE, message |-> <<"Item retrieved successfully">>,
              item |-> <<Item_use(found[1])>>,
              placed_items |-> DictPutItem(placed_items, Item_use(found[1]))]

\* [success, message, item (<< >> for None), placed_items: the dict passed,
\* whose Item objects are the store's own, after the call]
RetrievalEngine_simulate_retrieval(item_id, placed_items, current_date) ==
    LET found == Lookup(placed_items, item_id)
        failed(message) == [success |-> FALSE, message |-> message, item |-> << >>,
                            placed_items |-> placed_items]
    IN  IF found = << >> THEN failed(<<"Item ", item_id, " not found">>)
        ELSE IF ~IsPlaced(found[1]) THEN failed(<<"Item ", item_id, " is not placed in any container">>)
        ELSE IF Item_is_expired(found[1], current_date) THEN failed(<<"Item ", item_id, " is expired">>)
        ELSE IF Item_is_depleted(found[1]) THEN failed(<<"Item ", item_id, " has no remaining uses">>)
        ELSE [success |-> TRUE, message |-> <<"Item retrieved successfully">>,
              item |-> <<Item_use(found[1])>>,
              placed_items |-> DictPutItem(placed_items, Item_use(found[1]))]

\* POST /retrieve; request_item_id is the itemId as sent.  The output keeps
\* the ActionResponse (success, message) and what simulate_retrieval
\* returned (reason: its message, item: its item, << >> for None).  The
\* item's name, which the model's items do not carry, is stood for by its id.
RetrieveItem(request_item_id) ==
    LET formatted_id == validate_item_id(request_item_id)
        answered(r) ==
            /\ output' = [status |-> 200, success |-> r.success,
                          message |-> IF r.success
                                      THEN <<"Item ", r.item[1].itemId, " retrieved successfully. Remaining uses: ",
                                             r.item[1].usageLimit - r.item[1].currentUses>>
                                      ELSE r.message,
                          reason |-> r.message, item |-> r.item]
            /\ items' = IF r.success THEN MemoryStore_update_item(r.placed_items, r.item[1])
                        ELSE r.placed_items
    IN  /\ op' = "retrieve"
        /\ input' = [itemId |-> request_item_id]
        /\ before' = Store
        /\ IF formatted_id = "invalid"
           THEN output' = [status |-> 500] /\ items' = items
           ELSE answered(RetrievalEngine_simulate_retrieval(formatted_id, items, now))
        /\ UNCHANGED <<containers, now, hashseed, simulation_date, threads>>

(***************************************************************************)
(* WasteEngine.execute_undocking and POST /waste/complete-undocking        *)
(***************************************************************************)
\* [success, items_removed, placed_items, containers: the two dicts passed,
\* after the call]
WasteEngine_execute_undocking(undocking_container_id, placed_items, containers_dict) ==
    IF undocking_container_id \notin ContainerKeys(containers_dict)
    THEN [success |-> FALSE, items_removed |-> 0,
          placed_items |-> placed_items, containers |-> containers_dict]
    ELSE LET items_to_remove ==
                 SelectSeq(placed_items,
                           LAMBDA item : item.containerId = undocking_container_id)
         IN  [success |-> TRUE,
              items_removed |-> Len(items_to_remove),
              placed_items |-> SelectSeq(placed_items,
                                  LAMBDA item : item.containerId # undocking_container_id),
              containers |-> SelectSeq(containers_dict,
                                  LAMBDA c : c.containerId # undocking_container_id)]

\* POST /waste/complete-undocking.  execute_undocking deletes from the two
\* copies the handler holds; the handler stores nothing back.
CompleteUndocking(undocking_container_id) ==
    LET placed_items == items            \* storage.get_all_items(): a copy
        containers_copy == containers    \* storage.get_all_containers(): a copy
        answered(r) ==
            IF r.success
            THEN [status |-> 200, success |-> TRUE, itemsRemoved |-> r.items_removed]
            ELSE [status |-> 500]
    IN  /\ op' = "complete_undocking"
        /\ input' = [undockingContainerId |-> undocking_container_id]
        /\ before' = Store
        /\ output' = IF undocking_container_id \notin ContainerKeys(containers_copy)
                     THEN [status |-> 404]
                     ELSE answered(WasteEngine_execute_undocking(undocking_container_id,
                                       placed_items, containers_copy))
        /\ UNCHANGED <<items, containers, now, hashseed, simulation_date, threads>>

(***************************************************************************)
(* SpecStore: retrieve and undocking requests on a store of two items      *)
(* drawn from bounded sets of placement, expiry date and use counts        *)
(***************************************************************************)
MaxStoreRequests == 2     \* requests served in one behaviour

\* itemId values as sent: two stored ids, an unknown id, an id without digits
RetrieveIds == {<<"1">>, <<"A", "2">>, <<"7">>, <<"x">>}

StoreInit ==
    /\ \E first \in {item \in WasteItems(StoredIds[1]) : item.currentUses <= item.usageLimit} :
          \E second \in {item \in WasteItems(StoredIds[2]) :
                            /\ item.currentUses <= item.usageLimit
                            /\ IsPlaced(item)
                            /\ item.expiryDate \in {ExpNone, ExpAt(0)}} :
              items = <<first, second>>
    /\ containers = StoredContainers(items)
    /\ now = 0
    /\ hashseed = 0
    /\ simulation_date = now
    /\ threads = << >>
    /\ nreq = 0
    /\ op = "init"
    /\ input = << >>
    /\ output = << >>
    /\ before = [items |-> << >>, containers |-> << >>]

RetrieveRequest ==
    /\ nreq < MaxStoreRequests
    /\ nreq' = nreq + 1
    /\ \E request_item_id \in RetrieveIds : RetrieveItem(request_item_id)

UndockingRequest ==
    /\ nreq < MaxStoreRequests
    /\ nreq' = nreq + 1
    /\ \E undocking_container_id \in {IdA, IdB, <<"Z", "9">>} :
          CompleteUndocking(undocking_container_id)

StoreNext ==
    \/ RetrieveRequest
    \/ UndockingRequest
    \/ Tick

SpecStore == StoreInit /\ [][StoreNext]_vars


(***************************************************************************)
(* Retrieval and undocking claims (SpecStore)                              *)
(***************************************************************************)
\* the last request was a retrieve request that simulate_retrieval answered
RetrieveAnswered == op = "retrieve" /\ output.status = 200

\* C11: a successful retrieval is one of a placed, non-expired, non-depleted
\* item; it raises that item's currentUses by exactly 1 and leaves its
\* containerId and position, every other item and every container unchanged.
C11_RetrieveAddsOneUse ==
    (RetrieveAnswered /\ output.success) =>
        \E i \in 1..Len(before.items) :
            /\ before.items[i].itemId = validate_item_id(input.itemId)
            /\ IsPlaced(before.items[i])
            /\ ~Item_is_expired(before.items[i], now)
            /\ ~Item_is_depleted(before.items[i])
            /\ items = [before.items EXCEPT ![i].currentUses = @ + 1]
            /\ containers = before.containers

\* a successful retrieval from a store holding a second placed item
C11_Witness ==
    /\ RetrieveAnswered /\ output.success
    /\ \E i, j \in 1..Len(items) :
          /\ i # j
          /\ items[i].itemId = validate_item_id(input.itemId)
          /\ items[i].currentUses = before.items[i].currentUses + 1
          /\ IsPlaced(items[j])


\* the cause for which the claim lets a retrieval of item_id fail, tested in
\* the claim's order; "none" when it names none
RetrievalFailureCause(item_id, placed_items, date) ==
    LET known == {i \in 1..Len(placed_items) : placed_items[i].itemId = item_id}
        cause_of(item) ==
            IF ~IsPlaced(item) THEN " is not placed in any container"
            ELSE IF ExpiryBefore(item, date) THEN " is expired"
            ELSE IF UsedUp(item) THEN " has no remaining uses"
            ELSE "none"
    IN  IF known = {} THEN " not found"
        ELSE cause_of(placed_items[CHOOSE i \in known : TRUE])

\* C12: simulate_retrieval fails exactly when the item is unknown, unplaced,
\* expired or depleted; the failure reason is the one of the first of these
\* causes that applies, no item is returned, and no item or container of the
\* store changes.
C12_FailureCauses ==
    RetrieveAnswered =>
        LET settled(cause) ==
                /\ output.success <=> cause = "none"
                /\ ~output.success =>
                       /\ output.reason = <<"Item ", validate_item_id(input.itemId), cause>>
                       /\ output.item = << >>
                       /\ items = before.items
                       /\ containers = before.containers
        IN  settled(RetrievalFailureCause(validate_item_id(input.itemId), before.items, now))

\* a retrieval of an item both expired and used up fails as expired
C12_Witness ==
    /\ RetrieveAnswered /\ ~output.success
    /\ output.reason[3] = " is expired"
    /\ \E i \in 1..Len(items) :
          /\ items[i].itemId = validate_item_id(input.itemId)
          /\ UsedUp(items[i])


\* the last request was an undocking request answered with success
UndockingAnswered == op = "complete_undocking" /\ output.status = 200 /\ output.success

\* C13: after a successful undocking of container c the store no longer
\* holds c, no stored item is assigned to c, and the count returned is the
\* number of items assigned to c before; an unknown container is answered
\* not-found and nothing changes.
C13_UndockingRemovesContainer ==
    /\ UndockingAnswered =>
          /\ input.undockingContainerId \notin ContainerKeys(containers)
          /\ \A i \in 1..Len(items) : items[i].containerId # input.undockingContainerId
          /\ output.itemsRemoved =
                 Cardinality({i \in 1..Len(before.items) :
                                 before.items[i].containerId = input.undockingContainerId})
    /\ (op = "complete_undocking"
            /\ input.undockingContainerId \notin ContainerKeys(before.containers)) =>
          /\ output.status = 404
          /\ items = before.items
          /\ containers = before.containers


(***************************************************************************)
(* SpecThreads: retrieve_item served by threads for one itemId.  The       *)
(* store's lock is held for the length of one store call (get_all_items,   *)
(* update_item); the checks of simulate_retrieval and its                  *)
(* item.currentUses += 1, a read and a write of the store's own Item       *)
(* object, run without it.                                                 *)
(***************************************************************************)
MaxThreads == 2     \* retrieve requests in flight

\* the Item object the dict copy of a thread holds under the formatted id:
\* the store's own object
ThreadItem == Lookup(items, validate_item_id(input.itemId))[1]

ThreadsInit ==
    /\ \E first \in {item \in WasteItems(StoredIds[1]) : item.currentUses <= item.usageLimit} :
          items = <<first, StoredItem(StoredIds[2], [containerId |-> IdA,
                                         position |-> <<Position(2, 0, 0, 2, 2, 2)>>],
                                      ExpNone, 1, 0)>>
    /\ containers = StoredContainers(items)
    /\ now \in 0..MaxNow
    /\ hashseed = 0
    /\ simulation_date = now
    /\ nreq = 0
    /\ op = "retrieve_threads"
    /\ \E request_item_id \in {<<"1">>, <<"7">>} : input = [itemId |-> request_item_id]
    /\ output = << >>
    /\ before = Store
    /\ threads = [t \in 1..MaxThreads |-> [pc |-> "get_all", loaded |-> 0, response |-> << >>]]

\* placed_items = storage.get_all_items(); containers = storage.get_all_containers()
ThreadGetAll(t) ==
    /\ threads[t].pc = "get_all"
    /\ threads' = [threads EXCEPT ![t].pc = "check"]
    /\ UNCHANGED <<items, containers, now, hashseed, simulation_date, nreq, op, input, output, before>>

\* simulate_retrieval up to the increment: the four tests
ThreadCheck(t) ==
    LET checked(r) ==
            IF r.success
            THEN [threads EXCEPT ![t].pc = "load"]
            ELSE [threads EXCEPT ![t].pc = "done",
                                 ![t].response = <<[success |-> FALSE, reason |-> r.message]>>]
    IN  /\ threads[t].pc = "check"
        /\ threads' = checked(RetrievalEngine_simulate_retrieval(
                                  validate_item_id(input.itemId), items, now))
        /\ UNCHANGED <<items, containers, now, hashseed, simulation_date, nreq, op, input, output, before>>

\* item.currentUses += 1: the read
ThreadLoad(t) ==
    /\ threads[t].pc = "load"
    /\ threads' = [threads EXCEPT ![t].pc = "store", ![t].loaded = ThreadItem.currentUses]
    /\ UNCHANGED <<items, containers, now, hashseed, simulation_date, nreq, op, input, output, before>>

\* item.currentUses += 1: the write
ThreadStore(t) ==
    /\ threads[t].pc = "store"
    /\ items' = DictPutItem(items, [ThreadItem EXCEPT !.currentUses = threads[t].loaded + 1])
    /\ threads' = [threads EXCEPT ![t].pc = "update"]
    /\ UNCHANGED <<containers, now, hashseed, simulation_date, nreq, op, input, output, before>>

\* storage.update_item(item) and the response
ThreadUpdate(t) ==
    /\ threads[t].pc = "update"
    /\ items' = MemoryStore_update_item(items, ThreadItem)
    /\ threads' = [threads EXCEPT ![t].pc = "done",
                                  ![t].response = <<[success |-> TRUE,
                                                     reason |-> <<"Item retrieved successfully">>]>>]
    /\ UNCHANGED <<containers, now, hashseed, simulation_date, nreq, op, input, output, before>>

ThreadsNext ==
    \E t \in 1..MaxThreads :
        \/ ThreadGetAll(t)
        \/ ThreadCheck(t)
        \/ ThreadLoad(t)
        \/ ThreadStore(t)
        \/ ThreadUpdate(t)

SpecThreads == ThreadsInit /\ [][ThreadsNext]_vars

PriorityInit ==
    /\ \E priority \in {1, 59, 60, 79, 80, 84, 85, 100},
          expiryDate \in {ExpNone, ExpMalformed}
              \cup {ExpAt(days * TicksPerDay + half) :
                        days \in {-1, 0, 1, 7, 8, 14, 15, 30, 31, 90, 91}, half \in {0, 1}},
          usage \in {<<1, 0>>, <<3, 0>>, <<3, 1>>, <<4, 2>>, <<4, 3>>, <<4, 4>>,
                     <<10, 0>>, <<10, 9>>} :
          items = <<[NewItem(ItemRequest(<<"1">>, 2, 2, 2, priority, ZLab, 1,
                                         expiryDate, usage[1]))
                        EXCEPT !.currentUses = usage[2]]>>
    /\ containers = << >>
    /\ now \in 0..MaxNow
    /\ hashseed = 0
    /\ simulation_date = now
    /\ threads = << >>
    /\ nreq = 0
    /\ op = "init"
    /\ input = << >>
    /\ output = << >>
    /\ before = [items |-> << >>, containers |-> << >>]

\* calculate_composite_priority(item, now) and should_force_preferred_zone(item)
CalculatePriority ==
    /\ op = "init"
    /\ op' = "priority"
    /\ input' = [item |-> items[1], current_time |-> now]
    /\ output' = [composite_priority |->
                      PriorityCalculator_calculate_composite_priority(items[1], now),
                  force_preferred |->
                      PriorityCalculator_should_force_preferred_zone(items[1], now)]
    /\ UNCHANGED <<items, containers, now, hashseed, simulation_date, threads, nreq, before>>

SpecPriority == PriorityInit /\ [][CalculatePriority]_vars

\* whole days from the clock value to the item's expiry date
DaysLeft(item, date) == DaysBetween(item.expiryDate.at, date)
RemainingUses(item) == item.usageLimit - item.currentUses

\* C19: the force-preferred-zone predicate holds exactly when the priority is
\* at least 85, or the expiry date is at most 14 days away, or at most 2
\* uses (usageLimit - currentUses) remain.
C19_ForcePreferredIff ==
    op = "priority" =>
        (output.force_preferred <=>
            \/ input.item.priority >= 85
            \/ input.item.expiryDate.kind = "iso"
                   /\ DaysLeft(input.item, input.current_time) <= 14
            \/ RemainingUses(input.item) <= 2)

\* the terms of the composite score as the claim gives them
ExpiryTerm(item, date) ==
    IF item.expiryDate.kind # "iso" THEN 0
    ELSE IF DaysLeft(item, date) <= 0 THEN 30
    ELSE IF DaysLeft(item, date) <= 7 THEN 25
    ELSE IF DaysLeft(item, date) <= 30 THEN 15
    ELSE IF DaysLeft(item, date) <= 90 THEN 5
    ELSE 0
UsageTerm(item) ==
    IF RemainingUses(item) <= 0 THEN 20
    ELSE IF RemainingUses(item) * 10 <= item.usageLimit THEN 15
    ELSE IF RemainingUses(item) * 4 <= item.usageLimit THEN 10
    ELSE IF RemainingUses(item) * 2 <= item.usageLimit THEN 5
    ELSE 0
ZoneTerm(item) == IF item.priority >= 80 THEN 10 ELSE IF item.priority >= 60 THEN 5 ELSE 0

\* C20: the composite score is priority * 0.4 plus the expiry term, the
\* usage-depletion term of the remaining uses and the zone term, and lies
\* in [0, 100].
C20_CompositeIsSumOfTerms ==
    op = "priority" =>
        /\ output.composite_priority =
               FAdd(Frac(input.item.priority * 4, 10),
                    FInt(ExpiryTerm(input.item, input.current_time)
                             + UsageTerm(input.item) + ZoneTerm(input.item)))
        /\ FLeq(FInt(0), output.composite_priority)
        /\ FLeq(output.composite_priority, FInt(100))


(***************************************************************************)
(* Zone and batch claims (SpecEngine)                                      *)
(***************************************************************************)
\* the six orientations of an item
Orientations(item) ==
    { <<item.width, item.depth, item.height>>, <<item.width, item.height, item.depth>>,
      <<item.depth, item.width, item.height>>, <<item.depth, item.height, item.width>>,
      <<item.height, item.width, item.depth>>, <<item.height, item.depth, item.width>> }

\* some orientation of the item has a position inside the container that
\* overlaps none of the placements made in it
CanFit(item, container, placements) ==
    \E o \in Orientations(item) :
        \E x \in 0..(container.width - o[1]), y \in 0..(container.depth - o[2]),
           z \in 0..(container.height - o[3]) :
            \A k \in 1..Len(placements) :
                placements[k].containerId = container.containerId
                => ~BoxesOverlap(Position(x, y, z, o[1], o[2], o[3]), placements[k].position)

ZoneOf(containers_dict, container_id) ==
    containers_dict[CHOOSE i \in 1..Len(containers_dict) :
                        containers_dict[i].containerId = container_id].zone

\* C14: an item for which the force-preferred-zone predicate holds is not
\* placed in a container of another zone while a container of its preferred
\* zone can fit it in some orientation: here, while one still can after the
\* whole batch is placed.
C14_ForcedStaysInPreferredZone ==
    op = "place_items_enhanced_priority" =>
        \A i \in 1..Len(input.items) : \A k \in 1..Len(output.placements) :
            ( /\ output.placements[k].itemId = input.items[i].itemId
              /\ PriorityCalculator_should_force_preferred_zone(input.items[i], now)
              /\ ~SameZoneLower(input.items[i].preferredZone,
                                ZoneOf(input.containers, output.placements[k].containerId)) )
            => \A c \in 1..Len(input.containers) :
                   SameZoneLower(input.items[i].preferredZone, input.containers[c].zone)
                   => ~CanFit(input.items[i], input.containers[c], output.placements)

\* C15: an item for which the predicate holds and which no container of its
\* preferred zone can hold, even empty, is placed whenever a container of
\* another zone can fit it: here, whenever one still can after the whole
\* batch is placed.
C15_ForcedFallsBackToOtherZone ==
    op = "place_items_enhanced_priority" =>
        \A i \in 1..Len(input.items) :
            ( /\ PriorityCalculator_should_force_preferred_zone(input.items[i], now)
              /\ \A c \in 1..Len(input.containers) :
                     SameZoneLower(input.items[i].preferredZone, input.containers[c].zone)
                     => ~CanFit(input.items[i], input.containers[c], << >>)
              /\ \E c \in 1..Len(input.containers) :
                     CanFit(input.items[i], input.containers[c], output.placements) )
            => \E k \in 1..Len(output.placements) :
                   output.placements[k].itemId = input.items[i].itemId

\* C16: a call of place_items_enhanced_priority returns normally, whatever
\* the size of the batch, with at most one placement for each item of the
\* batch and every placement that of an item of the batch.
C16_BatchNeverAborts ==
    op = "place_items_enhanced_priority" =>
        /\ output.raised = ""
        /\ Len(output.placements) <= Len(input.items)
        /\ \A k \in 1..Len(output.placements) :
               \E i \in 1..Len(input.items) :
                   input.items[i].itemId = output.placements[k].itemId


(***************************************************************************)
(* SpecReturn: calculate_return_plan on a store of two used-up items, each *)
(* unplaced or placed by hand at a box drawn from a bounded set, with a    *)
(* priority on either side of a difference of 10 and a mass of 1 or 2; the *)
(* store holds a third, small container C1 (2x1x2) besides A1 and B1       *)
(***************************************************************************)
ReturnInit ==
    /\ \E placing \in [1..2 -> Placings], priority \in [1..2 -> {50, 65}],
          mass \in [1..2 -> {1, 2}] :
          items = [k \in 1..2 |->
                      [StoredItem(StoredIds[k], placing[k], ExpNone, 1, 1)
                          EXCEPT !.priority = priority[k], !.mass = mass[k]]]
    /\ containers = StoredContainers(items)
                       \o <<NewContainer(ContainerRequest(<<"C", "1">>, ZCargoHold, 2, 1, 2))>>
    /\ now = 0
    /\ hashseed = 0
    /\ simulation_date = now
    /\ threads = << >>
    /\ nreq = 0
    /\ op = "init"
    /\ input = << >>
    /\ output = << >>
    /\ before = [items |-> << >>, containers |-> << >>]

\* calculate_return_plan for the container B1 or C1 and a weight limit
CalculateReturnPlan ==
    /\ op = "init"
    /\ \E undocking_container_id \in {IdB, <<"C", "1">>}, max_weight \in MaxWeights :
          /\ input' = [undockingContainerId |-> undocking_container_id,
                       maxWeight |-> max_weight]
          /\ output' = WasteEngine_calculate_return_plan(undocking_container_id, max_weight,
                                                         items, containers, now)
    /\ op' = "calculate_return_plan"
    /\ UNCHANGED <<items, containers, now, hashseed, simulation_date, threads, nreq, before>>

SpecReturn == ReturnInit /\ [][CalculateReturnPlan]_vars

\* difficulty - priority * 0.1, the difficulty of an item being the number
\* of steps of its retrieval step list
ReturnRank(item_id) ==
    LET rank(item) ==
            FSub(FInt(Len(RetrievalEngine_get_retrieval_steps(item, items))),
                 Frac(item.priority, 10))
    IN  rank(Lookup(items, item_id)[1])

\* C18: the return plan lists the waste items in ascending order of
\* (difficulty - priority * 0.1), the difficulty being the length of the
\* item's retrieval step list.
C18_PlanAscendingInDifficulty ==
    op = "calculate_return_plan" =>
        \A k, l \in 1..Len(output.returnPlan) :
            k < l => FLeq(ReturnRank(output.returnPlan[k].itemId),
                          ReturnRank(output.returnPlan[l].itemId))


\* C21: a run of batch placement processes the items in an order, and returns
\* placements, that depend on the items, the containers and the clock only:
\* the run of a process with another hash seed (here seed 0) sorts the batch
\* into the same order and returns the same placements.
C21_SameOrderInEveryProcess ==
    op = "place_items_enhanced_priority" =>
        /\ ItemSorter_context_optimized_sort(input.items, now, hashseed)
               = ItemSorter_context_optimized_sort(input.items, now, 0)
        /\ output.placements
               = Engine_place_items_enhanced_priority(<< >>, input.items, input.containers,
                                                      now, 0).placements


\* the unit cells [x, x+1) x [y, y+1) x [z, z+1) of a box with integer corners
CellInBox(x, y, z, box) ==
    /\ box.x <= x /\ x < box.x + box.width
    /\ box.y <= y /\ y < box.y + box.depth
    /\ box.z <= z /\ z < box.z + box.height

\* the cell lies inside no item placed in the container state
CellUnoccupied(cs, x, y, z) ==
    \A k \in 1..Len(cs.placed_items) : ~CellInBox(x, y, z, cs.placed_items[k])

\* C22: after the placements of a batch, the free-space boxes a container
\* state retains cover every point of the container that lies inside no
\* placed item.
C22_FreeSpacesCoverUnoccupied ==
    op = "place_items_enhanced_priority" =>
        \A i \in 1..Len(output.container_states) :
            LET cs == output.container_states[i]
            IN  \A x \in 0..(cs.width - 1), y \in 0..(cs.depth - 1), z \in 0..(cs.height - 1) :
                    CellUnoccupied(cs, x, y, z)
                    => \E f \in 1..Len(cs.free_spaces) : CellInBox(x, y, z, cs.free_spaces[f])


\* the free-space box holds the item in some orientation
BoxFits(free_space, item) ==
    \E o \in Orientations(item) :
        o[1] <= free_space.width /\ o[2] <= free_space.depth /\ o[3] <= free_space.height

\* C23: an item of the batch is left unplaced only if no container yields a
\* position: when the batch is done, no container state retains a free-space
\* box that holds an unplaced item in some orientation.
C23_UnplacedOnlyIfNothingFits ==
    (op = "place_items_enhanced_priority" /\ output.raised = "") =>
        \A k \in 1..Len(input.items) :
            (\A p \in 1..Len(output.placements) :
                 output.placements[p].itemId # input.items[k].itemId)
            => \A i \in 1..Len(output.container_states) :
                   \A f \in 1..Len(output.container_states[i].free_spaces) :
                       ~BoxFits(output.container_states[i].free_spaces[f], input.items[k])


\* the free-space box lies inside the container of the container state
BoxInside(cs, box) ==
    /\ 0 <= box.x /\ box.x + box.width <= cs.width
    /\ 0 <= box.y /\ box.y + box.depth <= cs.depth
    /\ 0 <= box.z /\ box.z + box.height <= cs.height

\* the two boxes share no interior point
BoxesDisjoint(a, b) ==
    \/ a.x + a.width <= b.x \/ b.x + b.width <= a.x
    \/ a.y + a.depth <= b.y \/ b.y + b.depth <= a.y
    \/ a.z + a.height <= b.z \/ b.z + b.height <= a.z

\* C30: after the successful place_item calls of a batch, every free-space
\* box a container state retains lies inside the container and is disjoint
\* from every placed item, and every orientation of a batch item that fits
\* the box's dimensions passes can_place_item at the box's origin.
C30_FreeSpacesAreFree ==
    op = "place_items_enhanced_priority" =>
        \A i \in 1..Len(output.container_states) :
            LET cs == output.container_states[i]
            IN  \A f \in 1..Len(cs.free_spaces) :
                    /\ BoxInside(cs, cs.free_spaces[f])
                    /\ \A k \in 1..Len(cs.placed_items) :
                           BoxesDisjoint(cs.free_spaces[f], cs.placed_items[k])
                    /\ \A n \in 1..Len(input.items) : \A o \in Orientations(input.items[n]) :
                           (o[1] <= cs.free_spaces[f].width /\ o[2] <= cs.free_spaces[f].depth
                            /\ o[3] <= cs.free_spaces[f].height)
                           => ContainerState_can_place_item(cs, cs.free_spaces[f].x,
                                  cs.free_spaces[f].y, cs.free_spaces[f].z, o[1], o[2], o[3])

\* a container state holds two placed items and retains a free-space box that
\* an item of the batch fits
C30_Witness ==
    /\ op = "place_items_enhanced_priority"
    /\ \E i \in 1..Len(output.container_states) :
           /\ Len(output.container_states[i].placed_items) = 2
           /\ \E f \in 1..Len(output.container_states[i].free_spaces) :
                  \E n \in 1..Len(input.items) :
                      BoxFits(output.container_states[i].free_spaces[f], input.items[n])


\* the steps of the consolidated list that name the item
StepsNaming(retrieval_steps, item_id) ==
    {k \in 1..Len(retrieval_steps) : retrieval_steps[k].itemId = item_id}

\* C24: the consolidated retrievalSteps of a return plan can be executed in
\* order: no step names an item that an earlier step retrieved, and the last
\* step that names an item of the plan is the step that retrieves it.
C24_StepsExecutableInOrder ==
    (op = "calculate_return_plan" /\ output.raised = "") =>
        /\ \A k, l \in 1..Len(output.retrievalSteps) :
               (k < l /\ output.retrievalSteps[k].action = "retrieve")
               => output.retrievalSteps[l].itemId # output.retrievalSteps[k].itemId
        /\ \A p \in 1..Len(output.returnPlan) :
               LET naming == StepsNaming(output.retrievalSteps, output.returnPlan[p].itemId)
               IN  /\ naming # {}
                   /\ \A k \in naming :
                          (\A l \in naming : l <= k)
                          => output.retrievalSteps[k].action = "retrieve"


\* the item is named by the return plan
Planned(item_id) ==
    \E p \in 1..Len(output.returnPlan) : output.returnPlan[p].itemId = item_id

\* adding the item to the finished plan keeps the plan within the weight limit
\* of the request and the available volume of the undocking container
StillFits(item) ==
    /\ output.returnManifest.totalWeight + item.mass <= input.maxWeight
    /\ output.returnManifest.totalVolume + Item_get_volume(item)
           <= Container_get_available_volume(
                  ContainerLookup(containers, input.undockingContainerId)[1], items)

\* C29: a return plan is maximal: no waste item left out of the plan could be
\* added to it without exceeding maxWeight or the available volume of the
\* undocking container, also when an item ranked before it was rejected.
C29_PlanIsMaximal ==
    (op = "calculate_return_plan" /\ output.raised = "") =>
        \A k \in 1..Len(items) :
            (IsPlaced(items[k]) /\ WasteEngine_waste_reason(items[k], now) # ""
             /\ ~Planned(items[k].itemId))
            => ~StillFits(items[k])

\* the plan accepts the item the code ranks second after it rejected the item
\* the code ranks first (no blocking item, the higher priority)
C29_Witness ==
    /\ op = "calculate_return_plan"
    /\ output.raised = ""
    /\ \E k, l \in 1..Len(items) :
           /\ IsPlaced(items[k]) /\ IsPlaced(items[l])
           /\ RetrievalEngine_calculate_retrieval_steps(items[k], items, containers) = 0
           /\ items[k].priority > items[l].priority
           /\ ~Planned(items[k].itemId)
           /\ Planned(items[l].itemId)


(***************************************************************************)
(* SimulationEngine (engines/simulation_engine.py) and POST /simulate/day  *)
(* (api/simulation.py).  A usage request is [itemId, name], each << >> for *)
(* None or <<the string>>; an item's name, which the model's items do not  *)
(* carry, is stood for by its id.                                          *)
(***************************************************************************)
MaxUsagePerDay == 2    \* usage requests in one itemsToBeUsedPerDay list

\* advance_time: [raised, date]; target_date is << >> for None or <<the
\* string>>, a string being what an expiryDate is: ExpAt(t) or ExpMalformed
SimulationEngine_advance_time(current_simulation_date, num_days, target_date) ==
    IF target_date # << >>
    THEN IF target_date[1].kind # "iso"
         THEN [raised |-> "ValueError", date |-> current_simulation_date]
         ELSE [raised |-> "", date |-> target_date[1].at]
    ELSE [raised |-> "", date |-> current_simulation_date + num_days * TicksPerDay]

\* the loop "for usage_request in items_to_use" on [placed_items, itemsUsed,
\* itemsDepletedToday]
RECURSIVE SimulationEngine_usage_loop(_, _, _)
SimulationEngine_usage_loop(items_to_use, done, current_simulation_date) ==
    IF items_to_use = << >> THEN done
    ELSE LET item_id == Head(items_to_use).itemId
             item_name == Head(items_to_use).name
             usable == {i \in 1..Len(done.placed_items) :
                           /\ item_name # << >>
                           /\ done.placed_items[i].itemId = item_name[1]
                           /\ ~Item_is_expired(done.placed_items[i], current_simulation_date)
                           /\ ~Item_is_depleted(done.placed_items[i])}
             target_item ==
                 IF item_id # << >> /\ item_id[1] # << >>
                    /\ item_id[1] \in ItemKeys(done.placed_items)
                 THEN Lookup(done.placed_items, item_id[1])
                 ELSE IF item_name # << >> /\ item_name[1] # << >> /\ usable # {}
                 THEN <<done.placed_items[SetMin(usable)]>>
                 ELSE << >>
             used == [target_item[1] EXCEPT !.currentUses = @ + 1]
         IN  SimulationEngine_usage_loop(Tail(items_to_use),
                 IF target_item = << >> THEN done
                 ELSE [placed_items |-> DictPutItem(done.placed_items, used),
                       itemsUsed |-> Append(done.itemsUsed,
                                        [itemId |-> used.itemId,
                                         remainingUses |-> used.usageLimit - used.currentUses]),
                       itemsDepletedToday |->
                           IF Item_is_depleted(used)
                           THEN Append(done.itemsDepletedToday, [itemId |-> used.itemId])
                           ELSE done.itemsDepletedToday],
                 current_simulation_date)

\* simulate_daily_usage: [placed_items: the Item objects of the dict after
\* the call, changes]
SimulationEngine_simulate_daily_usage(items_to_use, placed_items, current_simulation_date) ==
    LET done == SimulationEngine_usage_loop(items_to_use,
                    [placed_items |-> placed_items, itemsUsed |-> << >>,
                     itemsDepletedToday |-> << >>],
                    current_simulation_date)
        yesterday == current_simulation_date - TicksPerDay
        expired == SelectSeq(done.placed_items,
                       LAMBDA item : /\ Item_is_expired(item, current_simulation_date)
                                     /\ ~Item_is_expired(item, yesterday))
    IN  [placed_items |-> done.placed_items,
         changes |-> [itemsUsed |-> done.itemsUsed,
                      itemsExpired |-> [k \in 1..Len(expired) |-> [itemId |-> expired[k].itemId]],
                      itemsDepletedToday |-> done.itemsDepletedToday]]

\* POST /simulate/day.  numOfDays is << >> or <<days>>.  The new date is
\* stored before the usage is simulated.  request.itemsToBeUsedPerDay holds
\* ItemToUse objects, which have no method get: on a list that is not empty
\* the first usage_request.get(...) of simulate_daily_usage raises
\* AttributeError, which the handler answers with 500.
SimulateDay(numOfDays, toTimestamp, itemsToBeUsedPerDay) ==
    LET new_date == SimulationEngine_advance_time(simulation_date,
                        IF numOfDays = << >> THEN 0 ELSE numOfDays[1], toTimestamp)
        changes == SimulationEngine_simulate_daily_usage(<< >>, items, new_date.date).changes
    IN  /\ op' = "simulate_day"
        /\ input' = [numOfDays |-> numOfDays, toTimestamp |-> toTimestamp,
                     itemsToBeUsedPerDay |-> itemsToBeUsedPerDay]
        /\ before' = Store
        /\ IF (numOfDays = << >> /\ toTimestamp = << >>)
              \/ (numOfDays # << >> /\ toTimestamp # << >>)
           THEN output' = [status |-> 400] /\ simulation_date' = simulation_date
           ELSE IF new_date.raised # ""
           THEN output' = [status |-> 500] /\ simulation_date' = simulation_date
           ELSE /\ simulation_date' = new_date.date
                /\ output' = IF itemsToBeUsedPerDay # << >> THEN [status |-> 500]
                             ELSE [status |-> 200, success |-> TRUE,
                                   newDate |-> new_date.date, changes |-> changes]
        /\ UNCHANGED <<items, containers, now, hashseed, threads>>

\* a call of SimulationEngine.simulate_daily_usage, at the store's simulation
\* date, with usage requests given as dicts, on the dict
\* storage.get_all_items() returns: a copy of the store's dict that shares
\* its Item objects with the store
SimulateDailyUsage(items_to_use) ==
    LET r == SimulationEngine_simulate_daily_usage(items_to_use, items, simulation_date)
    IN  /\ op' = "simulate_daily_usage"
        /\ input' = [items_to_use |-> items_to_use]
        /\ before' = Store
        /\ output' = r.changes
        /\ items' = r.placed_items
        /\ UNCHANGED <<containers, now, hashseed, simulation_date, threads>>

\* requests on the store of StoreInit: time advances, usage and retrievals
SimulationNext ==
    \/ /\ nreq < MaxStoreRequests
       /\ nreq' = nreq + 1
       /\ \/ \E numOfDays \in {<< >>, <<1>>}, toTimestamp \in {<< >>, <<ExpAt(0)>>, <<ExpMalformed>>},
                itemsToBeUsedPerDay \in {<< >>, <<[itemId |-> <<StoredIds[1]>>, name |-> << >>]>>} :
                SimulateDay(numOfDays, toTimestamp, itemsToBeUsedPerDay)
          \/ \E items_to_use \in SeqsUpTo({[itemId |-> <<StoredIds[1]>>, name |-> << >>],
                                          [itemId |-> << >>, name |-> <<StoredIds[2]>>],
                                          [itemId |-> <<<<"1">>>>, name |-> << >>]},
                                         MaxUsagePerDay) :
                SimulateDailyUsage(items_to_use)
    \/ RetrieveRequest

SpecSimulation == StoreInit /\ [][SimulationNext]_vars

\* C25: an item that waste identification, at the store's simulation date,
\* reports as waste cannot be retrieved: no retrieve request succeeds for an
\* item that identify_waste_items reported when the request began.
C25_WasteIsNotRetrievable ==
    (op = "retrieve" /\ output.status = 200 /\ output.success) =>
        \A k \in 1..Len(before.items) :
            before.items[k].itemId = validate_item_id(input.itemId)
            => ~(IsPlaced(before.items[k])
                 /\ WasteEngine_waste_reason(before.items[k], simulation_date) # "")

\* C26: every item of the store has 0 <= currentUses <= usageLimit.
C26_UsesWithinLimit ==
    \A k \in 1..Len(items) :
        0 <= items[k].currentUses /\ items[k].currentUses <= items[k].usageLimit


\* C27: each container's cached item-id list agrees with the items'
\* containerId: an id is in the list of container c exactly when the store
\* holds an item of that id assigned to c, and no id is in two lists.
C27_ContainerListsAgree ==
    /\ \A c \in 1..Len(containers) :
           /\ \A k \in 1..Len(containers[c].items) :
                  \E i \in 1..Len(items) :
                      /\ items[i].itemId = containers[c].items[k]
                      /\ items[i].containerId = containers[c].containerId
           /\ \A i \in 1..Len(items) :
                  items[i].containerId = containers[c].containerId
                  => \E k \in 1..Len(containers[c].items) :
                         containers[c].items[k] = items[i].itemId
    /\ \A c, d \in 1..Len(containers) :
           c # d => \A k \in 1..Len(containers[c].items), l \in 1..Len(containers[d].items) :
                        containers[c].items[k] # containers[d].items[l]


(***************************************************************************)
(* SpatialEngine (engines/spatial_engine.py).  Coordinates are whole       *)
(* units, so a comparison within the tolerance epsilon = 1e-5 is the exact *)
(* comparison.                                                             *)
(***************************************************************************)
\* check_collision: the new position overlaps a placed item of the container
\* other than ignore_item_id
SpatialEngine_check_collision(new_position, container_id, placed_items, ignore_item_id) ==
    \E k \in 1..Len(placed_items) :
        /\ placed_items[k].containerId = container_id
        /\ placed_items[k].position # NoPosition
        /\ placed_items[k].itemId # ignore_item_id
        /\ ~(\/ new_position.endCoordinates.width <= Pos(placed_items[k]).startCoordinates.width
             \/ new_position.startCoordinates.width >= Pos(placed_items[k]).endCoordinates.width
             \/ new_position.endCoordinates.depth <= Pos(placed_items[k]).startCoordinates.depth
             \/ new_position.startCoordinates.depth >= Pos(placed_items[k]).endCoordinates.depth
             \/ new_position.endCoordinates.height <= Pos(placed_items[k]).startCoordinates.height
             \/ new_position.startCoordinates.height >= Pos(placed_items[k]).endCoordinates.height)

\* validate_placement: [valid, message]
SpatialEngine_validate_placement(item, container, position, placed_items) ==
    LET start == position.startCoordinates
        end == position.endCoordinates
        is_within_container ==
            /\ start.width >= 0 /\ end.width <= container.width
            /\ start.depth >= 0 /\ end.depth <= container.depth
            /\ start.height >= 0 /\ end.height <= container.height
        valid_rotations == Item_get_rotations(item)
        dimension_match ==
            \E r \in 1..Len(valid_rotations) :
                /\ end.width - start.width = valid_rotations[r][1]
                /\ end.depth - start.depth = valid_rotations[r][2]
                /\ end.height - start.height = valid_rotations[r][3]
    IN  IF ~is_within_container
        THEN [valid |-> FALSE, message |-> "Item exceeds container bounds"]
        ELSE IF ~dimension_match
        THEN [valid |-> FALSE, message |-> "Dimensions don't match any valid rotation"]
        ELSE IF SpatialEngine_check_collision(position, container.containerId,
                                              placed_items, item.itemId)
        THEN [valid |-> FALSE, message |-> "Collision with existing items"]
        ELSE [valid |-> TRUE, message |-> "Valid placement"]

\* the placements of a batch as the items a store holds after the batch
AsStored(placements) ==
    [k \in 1..Len(placements) |->
        [itemId |-> placements[k].itemId, containerId |-> placements[k].containerId,
         position |-> <<placements[k].position>>]]

\* C28: every placement the engine returns is accepted by validate_placement
\* for the item of the batch it places, against the container the engine was
\* given and the other placements of the batch.
C28_EnginePlacementsValidate ==
    op = "place_items_enhanced_priority" =>
        \A k \in 1..Len(output.placements) :
            \A i \in 1..Len(input.items), c \in 1..Len(input.containers) :
                ( /\ input.items[i].itemId = output.placements[k].itemId
                  /\ Ascending(Extents(output.placements[k].position))
                         = Ascending(<<input.items[i].width, input.items[i].depth,
                                       input.items[i].height>>)
                  /\ input.containers[c].containerId = output.placements[k].containerId )
                => SpatialEngine_validate_placement(input.items[i], input.containers[c],
                       output.placements[k].position, AsStored(output.placements)).valid

====
